---- MODULE Spec2Model ----
(***************************************************************************)
(* The Elasticsearch chain-data indexer of the repository                  *)
(* (plugins/elasticsearch_plugin/elasticsearch_plugin.cpp).                *)
(*                                                                         *)
(* Two threads share the four queues, one mutex and one condition          *)
(* variable:                                                               *)
(*   - the main thread: it runs plugin_initialize, then the controller's   *)
(*     signals call the four producer callbacks on it (each one call of    *)
(*     the template queue()), and finally plugin_shutdown and the impl     *)
(*     destructor;                                                         *)
(*   - the consumer thread: consume_blocks().                              *)
(* Every statement that touches shared state (mtx, condition, done, the    *)
(* queues) is a step of its own; statements on thread-local state are      *)
(* folded into the neighbouring step.                                      *)
(*                                                                         *)
(* Three components are stepped in specifications of their own, on         *)
(* variables the two threads leave alone: the ABI cache (SpecCache), the   *)
(* blacklist plugins of plugins/blacklist_plugin (SpecBlacklist) and the   *)
(* document-store client in its three versions (SpecStore).                *)
(*                                                                         *)
(* The two threads are also run in other environments: sustained load      *)
(* with the consumer not scheduled (SpecLoad), a burst of events on one    *)
(* stream (SpecBurst) or on two (SpecShared) with both threads running, a  *)
(* store that answers every call with 2xx (SpecHealthy), the plugin at     *)
(* work with shutdown not called (FairRunning), and accepted blocks whose  *)
(* serialization goes through the ABI cache (SpecResolve).                 *)
(***************************************************************************)
EXTENDS Integers, Sequences, FiniteSets, TLC

(***************************************************************************)
(* Bounds of the model.                                                    *)
(***************************************************************************)
\* events the controller emits in all under Spec
MaxEvents == 2
\* events the controller emits under SpecLoad (one stream, consumer not scheduled)
LoadEvents == 110
\* block numbers are 0..MaxBlockNum; start_block_num is drawn from the same range
MaxBlockNum == 1
\* the configured queue bound, scaled down: the member starts at 0 and
\* plugin_initialize sets it to 1024
max_queue_size == 0
\* the configured cache bound, scaled down: plugin_initialize sets it to 2048
abi_cache_size == 3
\* account lists (the actor-blacklist option, the accounts of the on-chain rows)
\* have at most MaxActors names
MaxActors == 3
\* rows of an on-chain table
MaxRows == 2
\* the blacklist-signature-provider option is made of at most MaxTokens tokens
MaxTokens == 5
\* readings of the clock by get_abi_serializer under SpecCache
MaxLookups == 5
\* events the controller emits under SpecBurst (one stream, both threads)
BurstEvents == 5
\* accepted blocks the controller emits under SpecResolve
ResolveEvents == 2
\* readings of the clock by get_abi_serializer under SpecResolve
MaxResolves == 1
\* events the controller emits under SpecShared (two streams, both threads)
SharedEvents == 3

(***************************************************************************)
(* Program constants.                                                      *)
(***************************************************************************)
\* queue(): queue_sleep_time += 10 / -= 10
SleepStep == 10
\* queue(): if( queue_sleep_time > 1000 ) wlog(...)
SleepWarn == 1000

Streams ==
  {"transaction_metadata", "transaction_trace", "block_state", "irreversible_block_state"}

\* the order of the four processing loops of consume_blocks
ProcessOrderEarlier ==
  <<"transaction_metadata", "transaction_trace", "block_state", "irreversible_block_state">>

ProcessOrder ==
  <<"transaction_trace", "transaction_metadata", "block_state", "irreversible_block_state">>

\* HTTP status codes the document store may answer with
Statuses == {200, 201, 404, 500}

is_2xx(status_code) == status_code > 199 /\ status_code < 300

NoCall == [stream |-> "none"]

VARIABLES
  main_pc,              \* position of the main thread
  cur,                  \* the callback in progress: [stream, entry], or NoCall
  connected,            \* the four scoped_connections are connected
  startup,              \* boost::atomic<bool> startup{true}
  done,                 \* boost::atomic<bool> done{false}
  start_block_num,
  start_block_reached,
  queue_sleep_time,
  queues,               \* the four shared deques, by stream
  process_queues,       \* the four *_process_queue deques, by stream
  sizes,                \* the four size_t *_size locals of consume_blocks
  mtx,                  \* owner of boost::mutex mtx: "free", "main", "consumer"
  cv_waiting,           \* the consumer is blocked inside condition.wait
  consumer_pc,          \* position of the consumer thread
  stage,                \* which of the four processing loops the consumer is in
  store,                \* documents written to the document store, in order
  emitted,              \* history: entries passed to each callback, in order
  appended,             \* history: entries emplaced on each shared queue, in order
  processed,            \* history: entries handed to each process function, in order
  enqueues,             \* history: the branch by which each call of queue() has
                        \* adjusted queue_sleep_time, "over" or "in", in order
  emit_limit,           \* environment: how many events the controller emits
  emit_streams,         \* environment: the streams the controller emits on
  failures              \* environment: store calls may be answered outside 2xx and
                        \* the serialization of a block may throw

\* the ABI cache of the indexer (get_abi_serializer)
VARIABLES
  abi_cache_index,      \* the cached entries: [account, last_accessed]
  now,                  \* fc::time_point::now(): the clock advances at every reading
  lookups,              \* history: the lookups that read the clock, [account, result]
  returned              \* what the latest call of get_abi_serializer returned

cache_vars == <<abi_cache_index, now, lookups, returned>>

\* the blacklist plugins and what they read
VARIABLES
  options,              \* the variables_map handed to plugin_initialize
  chain,                \* the controller's actor blacklist and the two on-chain tables
  bl_pc,                \* position of each blacklist plugin
  producer_name,        \* of each plugin
  actor_blacklist_hash, \* of each plugin
  blacklist_keys,       \* _blacklist_private_key and _blacklist_public_key of each plugin
  stats                 \* the blacklist_stats of the latest check_hash

blacklist_vars ==
  <<options, chain, bl_pc, producer_name, actor_blacklist_hash, blacklist_keys, stats>>

\* the document-store client and the store behind it
VARIABLES
  index_exists,         \* the store holds the index
  call                  \* the latest call of a client operation and how it ended

store_vars == <<index_exists, call>>

\* the state of the two threads of the indexer
indexer_vars ==
  <<main_pc, cur, connected, startup, done, start_block_num, start_block_reached,
    queue_sleep_time, queues, process_queues, sizes, mtx, cv_waiting, consumer_pc,
    stage, store, emitted, appended, processed, enqueues>>

\* the state of the components that are stepped in specifications of their own
component_vars == <<cache_vars, blacklist_vars, store_vars>>

vars == <<indexer_vars, emit_limit, emit_streams, failures, component_vars>>

\* what no step of the two threads changes
env_vars == <<emit_limit, emit_streams, failures, component_vars>>
hist_vars == <<emitted, appended, processed, enqueues>>

Empty == [s \in Streams |-> <<>>]

\* what the store may answer to a call of the indexer
StoreAnswers == IF failures THEN Statuses ELSE {status \in Statuses : is_2xx(status)}

\* whether abi_serializer::to_variant returns (TRUE) or throws (FALSE)
SerializerReturns == IF failures THEN BOOLEAN ELSE {TRUE}

Total(h) ==
  Len(h["transaction_metadata"]) + Len(h["transaction_trace"])
    + Len(h["block_state"]) + Len(h["irreversible_block_state"])

(***************************************************************************)
(* State after construction (member initialisers of                        *)
(* elasticsearch_plugin_impl).                                             *)
(***************************************************************************)
InitImpl ==
  /\ main_pc = "constructed"
  /\ cur = NoCall
  /\ connected = FALSE
  /\ startup = TRUE
  /\ done = FALSE
  /\ start_block_num = 0
  /\ start_block_reached = FALSE
  /\ queue_sleep_time = 0
  /\ queues = Empty
  /\ process_queues = Empty
  /\ sizes = [s \in Streams |-> 0]
  /\ mtx = "free"
  /\ cv_waiting = FALSE
  /\ consumer_pc = "not_started"
  /\ stage = 1
  /\ store = <<>>
  /\ emitted = Empty
  /\ appended = Empty
  /\ processed = Empty
  /\ enqueues = <<>>

(***************************************************************************)
(* Main thread: plugin_initialize.                                         *)
(***************************************************************************)
\* The configuration part and the four signal connections.  The source pins
\* start_block_num to 0; the model draws the configured threshold from
\* 0..MaxBlockNum so that the start-block gate of process_accepted_block is
\* exercised.
plugin_initialize ==
  /\ main_pc = "constructed"
  /\ \E n \in 0..MaxBlockNum :
       /\ start_block_num' = n
       /\ start_block_reached' = (n = 0)
  /\ connected' = TRUE
  /\ main_pc' = "delete_index"
  /\ UNCHANGED <<cur, startup, done, queue_sleep_time, queues, process_queues, sizes,
                 mtx, cv_waiting, consumer_pc, stage, store, hist_vars, env_vars>>

\* a store call of the initialising thread that writes no document: on a 2xx
\* answer go on to `next`, otherwise the exception leaves plugin_initialize
InitCall(here, next) ==
  /\ main_pc = here
  /\ \E status \in StoreAnswers :
       main_pc' = IF is_2xx(status) THEN next ELSE "init_failed"
  /\ UNCHANGED <<cur, connected, startup, done, start_block_num, start_block_reached,
                 queue_sleep_time, queues, process_queues, sizes, mtx, cv_waiting,
                 consumer_pc, stage, store, hist_vars, env_vars>>

delete_index == InitCall("delete_index", "init_index")

init_index == InitCall("init_index", "count_doc")

AccountsCount == Cardinality({i \in 1..Len(store) : store[i].kind = "accounts"})

count_doc_launches ==
  /\ main_pc = "count_doc"
  /\ \E status \in StoreAnswers :
       main_pc' = IF is_2xx(status)
                    THEN (IF AccountsCount = 0 THEN "seed_account" ELSE "launch")
                    ELSE "init_failed"
  /\ consumer_pc' = "lock"
  /\ UNCHANGED <<cur, connected, startup, done, start_block_num, start_block_reached,
                 queue_sleep_time, queues, process_queues, sizes, mtx, cv_waiting,
                 stage, store, hist_vars, env_vars>>

count_doc ==
  /\ main_pc = "count_doc"
  /\ \E status \in StoreAnswers :
       main_pc' = IF is_2xx(status)
                    THEN (IF AccountsCount = 0 THEN "seed_account" ELSE "launch")
                    ELSE "init_failed"
  /\ UNCHANGED <<cur, connected, startup, done, start_block_num, start_block_reached,
                 queue_sleep_time, queues, process_queues, sizes, mtx, cv_waiting,
                 consumer_pc, stage, store, hist_vars, env_vars>>

seed_account ==
  /\ main_pc = "seed_account"
  /\ \E status \in StoreAnswers :
       IF is_2xx(status)
         THEN /\ store' = Append(store, [kind |-> "accounts", id |-> 0, block_num |-> 0])
              /\ main_pc' = "launch"
         ELSE /\ store' = store
              /\ main_pc' = "init_failed"
  /\ UNCHANGED <<cur, connected, startup, done, start_block_num, start_block_reached,
                 queue_sleep_time, queues, process_queues, sizes, mtx, cv_waiting,
                 consumer_pc, stage, hist_vars, env_vars>>

\* consume_thread = boost::thread(...); startup = false;
launch ==
  /\ main_pc = "launch"
  /\ consumer_pc' = "lock"
  /\ startup' = FALSE
  /\ main_pc' = "idle"
  /\ UNCHANGED <<cur, connected, done, start_block_num, start_block_reached,
                 queue_sleep_time, queues, process_queues, sizes, mtx, cv_waiting,
                 stage, store, hist_vars, env_vars>>

InitializeNext ==
  \/ plugin_initialize
  \/ delete_index
  \/ init_index
  \/ count_doc
  \/ seed_account
  \/ launch

(***************************************************************************)
(* Main thread: the controller's signals and the producer callbacks        *)
(* accepted_transaction, applied_transaction, accepted_block and           *)
(* applied_irreversible_block, each of which is one call of queue().       *)
(***************************************************************************)
\* the entry the controller hands to the callback of stream s: the
\* transaction streams carry an identifier, an accepted block carries its
\* number as well (forks may emit a lower number after a higher one), and
\* the irreversible signal re-emits the accepted blocks in order
Entries(s) ==
  CASE s = "block_state" ->
         {[id |-> Len(emitted[s]) + 1, block_num |-> b] : b \in 0..MaxBlockNum}
    [] s = "irreversible_block_state" ->
         IF Len(emitted[s]) < Len(emitted["block_state"])
           THEN {emitted["block_state"][Len(emitted[s]) + 1]}
           ELSE {}
    [] OTHER -> {[id |-> Len(emitted[s]) + 1]}

\* a signal fires: the connected slot calls queue( <stream>_queue, e )
signal ==
  /\ main_pc = "idle"
  /\ connected
  /\ Total(emitted) < emit_limit
  /\ \E s \in emit_streams :
       \E e \in Entries(s) :
         /\ cur' = [stream |-> s, entry |-> e]
         /\ emitted' = [emitted EXCEPT ![s] = Append(@, e)]
  /\ main_pc' = "queue_lock"
  /\ UNCHANGED <<connected, startup, done, start_block_num, start_block_reached,
                 queue_sleep_time, queues, process_queues, sizes, mtx, cv_waiting,
                 consumer_pc, stage, store, appended, processed, enqueues, env_vars>>

\* queue_sleep_time -= 10; if( queue_sleep_time < 0 ) queue_sleep_time = 0;
DecayNoFloor(t) == t - SleepStep

Decay(t) == IF t - SleepStep < 0 THEN 0 ELSE t - SleepStep

GrowOnce(t) == SleepStep

\* queue_sleep_time += 10;
Grow(t) == t + SleepStep

OverCapacityAtBound(queue_size) == queue_size >= max_queue_size

\* if( queue_size > max_queue_size )
OverCapacity(queue_size) == queue_size > max_queue_size

queue_lock_traces_only ==
  /\ main_pc = "queue_lock"
  /\ mtx = "free"
  /\ mtx' = "main"
  /\ IF OverCapacity(Len(queues[cur.stream]))
       THEN /\ main_pc' = "queue_over_unlock"
            /\ queue_sleep_time' = queue_sleep_time
            /\ enqueues' = enqueues
       ELSE /\ main_pc' = "queue_push"
            /\ queue_sleep_time' = IF cur.stream = "transaction_trace"
                                     THEN Decay(queue_sleep_time)
                                     ELSE queue_sleep_time
            /\ enqueues' = Append(enqueues, "in")
  /\ UNCHANGED <<cur, connected, startup, done, start_block_num, start_block_reached,
                 queues, process_queues, sizes, cv_waiting, consumer_pc, stage, store,
                 emitted, appended, processed, env_vars>>

\* scoped_lock lock( mtx ); auto queue_size = queue.size(); and the test on it;
\* the else branch works on the producer's own queue_sleep_time
queue_lock ==
  /\ main_pc = "queue_lock"
  /\ mtx = "free"
  /\ mtx' = "main"
  /\ IF OverCapacity(Len(queues[cur.stream]))
       THEN /\ main_pc' = "queue_over_unlock"
            /\ queue_sleep_time' = queue_sleep_time
            /\ enqueues' = enqueues
       ELSE /\ main_pc' = "queue_push"
            /\ queue_sleep_time' = Decay(queue_sleep_time)
            /\ enqueues' = Append(enqueues, "in")
  /\ UNCHANGED <<cur, connected, startup, done, start_block_num, start_block_reached,
                 queues, process_queues, sizes, cv_waiting, consumer_pc, stage, store,
                 emitted, appended, processed, env_vars>>

queue_over_unlock_keep ==
  /\ main_pc = "queue_over_unlock"
  /\ mtx' = mtx
  /\ main_pc' = "queue_over_notify"
  /\ UNCHANGED <<cur, connected, startup, done, start_block_num, start_block_reached,
                 queue_sleep_time, queues, process_queues, sizes, cv_waiting,
                 consumer_pc, stage, store, hist_vars, env_vars>>

\* lock.unlock();
queue_over_unlock ==
  /\ main_pc = "queue_over_unlock"
  /\ mtx' = "free"
  /\ main_pc' = "queue_over_notify"
  /\ UNCHANGED <<cur, connected, startup, done, start_block_num, start_block_reached,
                 queue_sleep_time, queues, process_queues, sizes, cv_waiting,
                 consumer_pc, stage, store, hist_vars, env_vars>>

\* condition.notify_one(); queue_sleep_time += 10; (warning above 1000);
\* and the thread enters sleep_for( queue_sleep_time )
queue_over_notify ==
  /\ main_pc = "queue_over_notify"
  /\ cv_waiting' = FALSE
  /\ queue_sleep_time' = Grow(queue_sleep_time)
  /\ enqueues' = Append(enqueues, "over")
  /\ main_pc' = "queue_sleep"
  /\ UNCHANGED <<cur, connected, startup, done, start_block_num, start_block_reached,
                 queues, process_queues, sizes, mtx, consumer_pc, stage, store,
                 emitted, appended, processed, env_vars>>

\* sleep_for returns; lock.lock();
queue_relock_drop ==
  /\ main_pc = "queue_sleep"
  /\ mtx = "free"
  /\ mtx' = "main"
  /\ main_pc' = "queue_unlock"
  /\ UNCHANGED <<cur, connected, startup, done, start_block_num, start_block_reached,
                 queue_sleep_time, queues, process_queues, sizes, cv_waiting,
                 consumer_pc, stage, store, hist_vars, env_vars>>

queue_relock_recheck ==
  /\ main_pc = "queue_sleep"
  /\ mtx = "free"
  /\ mtx' = "main"
  /\ main_pc' = IF OverCapacity(Len(queues[cur.stream])) THEN "queue_over_unlock"
                                                         ELSE "queue_push"
  /\ UNCHANGED <<cur, connected, startup, done, start_block_num, start_block_reached,
                 queue_sleep_time, queues, process_queues, sizes, cv_waiting,
                 consumer_pc, stage, store, hist_vars, env_vars>>

queue_relock ==
  /\ main_pc = "queue_sleep"
  /\ mtx = "free"
  /\ mtx' = "main"
  /\ main_pc' = "queue_push"
  /\ UNCHANGED <<cur, connected, startup, done, start_block_num, start_block_reached,
                 queue_sleep_time, queues, process_queues, sizes, cv_waiting,
                 consumer_pc, stage, store, hist_vars, env_vars>>

\* queue.emplace_back( e );
EmplaceBack(q, e) == Append(q, e)

queue_push ==
  /\ main_pc = "queue_push"
  /\ queues' = [queues EXCEPT ![cur.stream] = EmplaceBack(@, cur.entry)]
  /\ appended' = [appended EXCEPT ![cur.stream] = Append(@, cur.entry)]
  /\ main_pc' = "queue_unlock"
  /\ UNCHANGED <<cur, connected, startup, done, start_block_num, start_block_reached,
                 queue_sleep_time, process_queues, sizes, mtx, cv_waiting, consumer_pc,
                 stage, store, emitted, processed, enqueues, env_vars>>

\* lock.unlock();
queue_unlock ==
  /\ main_pc = "queue_unlock"
  /\ mtx' = "free"
  /\ main_pc' = "queue_notify"
  /\ UNCHANGED <<cur, connected, startup, done, start_block_num, start_block_reached,
                 queue_sleep_time, queues, process_queues, sizes, cv_waiting,
                 consumer_pc, stage, store, hist_vars, env_vars>>

\* condition.notify_one(); and the callback returns
queue_notify ==
  /\ main_pc = "queue_notify"
  /\ cv_waiting' = FALSE
  /\ cur' = NoCall
  /\ main_pc' = "idle"
  /\ UNCHANGED <<connected, startup, done, start_block_num, start_block_reached,
                 queue_sleep_time, queues, process_queues, sizes, mtx, consumer_pc,
                 stage, store, hist_vars, env_vars>>

\* the steps of one call of queue()
QueueNext ==
  \/ queue_lock
  \/ queue_over_unlock
  \/ queue_over_notify
  \/ queue_relock
  \/ queue_push
  \/ queue_unlock
  \/ queue_notify

ProducerNext ==
  \/ signal
  \/ QueueNext

(***************************************************************************)
(* Main thread: plugin_shutdown and ~elasticsearch_plugin_impl.            *)
(***************************************************************************)
plugin_shutdown_impl_first ==
  /\ main_pc \in {"constructed", "init_failed", "idle"}
  /\ connected' = connected
  /\ main_pc' = "destructor"
  /\ UNCHANGED <<cur, startup, done, start_block_num, start_block_reached,
                 queue_sleep_time, queues, process_queues, sizes, mtx, cv_waiting,
                 consumer_pc, stage, store, hist_vars, env_vars>>

\* the four connection.reset() calls; my.reset() then runs the destructor.
\* The controller emits its signals on the thread that shuts the plugins
\* down, so no callback is in progress here.
plugin_shutdown ==
  /\ main_pc \in {"constructed", "init_failed", "idle"}
  /\ connected' = FALSE
  /\ main_pc' = "destructor"
  /\ UNCHANGED <<cur, startup, done, start_block_num, start_block_reached,
                 queue_sleep_time, queues, process_queues, sizes, mtx, cv_waiting,
                 consumer_pc, stage, store, hist_vars, env_vars>>

destructor_done_unguarded ==
  /\ main_pc = "destructor"
  /\ done' = TRUE /\ main_pc' = "destructor_notify"
  /\ UNCHANGED <<cur, connected, startup, start_block_num, start_block_reached,
                 queue_sleep_time, queues, process_queues, sizes, mtx, cv_waiting,
                 consumer_pc, stage, store, hist_vars, env_vars>>

\* if (!startup) { done = true; ...
destructor_done ==
  /\ main_pc = "destructor"
  /\ IF ~startup
       THEN done' = TRUE /\ main_pc' = "destructor_notify"
       ELSE done' = done /\ main_pc' = "stopped"
  /\ UNCHANGED <<cur, connected, startup, start_block_num, start_block_reached,
                 queue_sleep_time, queues, process_queues, sizes, mtx, cv_waiting,
                 consumer_pc, stage, store, hist_vars, env_vars>>

\* condition.notify_one();
destructor_notify ==
  /\ main_pc = "destructor_notify"
  /\ cv_waiting' = FALSE
  /\ main_pc' = "join"
  /\ UNCHANGED <<cur, connected, startup, done, start_block_num, start_block_reached,
                 queue_sleep_time, queues, process_queues, sizes, mtx, consumer_pc,
                 stage, store, hist_vars, env_vars>>

\* consume_thread.join();
destructor_join ==
  /\ main_pc = "join"
  /\ consumer_pc = "exited"
  /\ main_pc' = "stopped"
  /\ UNCHANGED <<cur, connected, startup, done, start_block_num, start_block_reached,
                 queue_sleep_time, queues, process_queues, sizes, mtx, cv_waiting,
                 consumer_pc, stage, store, hist_vars, env_vars>>

DestructorNext ==
  \/ destructor_done
  \/ destructor_notify
  \/ destructor_join

ShutdownNext ==
  \/ plugin_shutdown
  \/ DestructorNext

(***************************************************************************)
(* Consumer thread: consume_blocks().                                      *)
(***************************************************************************)
\* boost::mutex::scoped_lock lock(mtx);
consume_lock ==
  /\ consumer_pc = "lock"
  /\ mtx = "free"
  /\ mtx' = "consumer"
  /\ consumer_pc' = "check"
  /\ UNCHANGED <<main_pc, cur, connected, startup, done, start_block_num,
                 start_block_reached, queue_sleep_time, queues, process_queues, sizes,
                 cv_waiting, stage, store, hist_vars, env_vars>>

\* the condition of the inner while loop
WaitPredicate ==
  /\ queues["transaction_metadata"] = <<>>
  /\ queues["transaction_trace"] = <<>>
  /\ queues["block_state"] = <<>>
  /\ queues["irreversible_block_state"] = <<>>
  /\ ~done

consume_check_unlocks ==
  /\ consumer_pc = "check"
  /\ consumer_pc' = IF WaitPredicate THEN "wait" ELSE "capture"
  /\ mtx' = IF WaitPredicate THEN "free" ELSE mtx
  /\ UNCHANGED <<main_pc, cur, connected, startup, done, start_block_num,
                 start_block_reached, queue_sleep_time, queues, process_queues, sizes,
                 cv_waiting, stage, store, hist_vars, env_vars>>

consume_check_quit ==
  /\ consumer_pc = "check"
  /\ consumer_pc' = IF done THEN "exited" ELSE IF WaitPredicate THEN "wait" ELSE "capture"
  /\ UNCHANGED <<main_pc, cur, connected, startup, done, start_block_num,
                 start_block_reached, queue_sleep_time, queues, process_queues, sizes,
                 mtx, cv_waiting, stage, store, hist_vars, env_vars>>

consume_check ==
  /\ consumer_pc = "check"
  /\ consumer_pc' = IF WaitPredicate THEN "wait" ELSE "capture"
  /\ UNCHANGED <<main_pc, cur, connected, startup, done, start_block_num,
                 start_block_reached, queue_sleep_time, queues, process_queues, sizes,
                 mtx, cv_waiting, stage, store, hist_vars, env_vars>>

\* condition.wait(lock): the mutex is released and the thread blocks, atomically
consume_wait ==
  /\ consumer_pc = "wait"
  /\ mtx' = "free"
  /\ cv_waiting' = TRUE
  /\ consumer_pc' = "waiting"
  /\ UNCHANGED <<main_pc, cur, connected, startup, done, start_block_num,
                 start_block_reached, queue_sleep_time, queues, process_queues, sizes,
                 stage, store, hist_vars, env_vars>>

\* condition.wait may return without a notification
spurious_wakeup ==
  /\ consumer_pc = "waiting"
  /\ cv_waiting
  /\ cv_waiting' = FALSE
  /\ UNCHANGED <<main_pc, cur, connected, startup, done, start_block_num,
                 start_block_reached, queue_sleep_time, queues, process_queues, sizes,
                 mtx, consumer_pc, stage, store, hist_vars, env_vars>>

\* condition.wait returns: the woken thread re-acquires the mutex
consume_wake ==
  /\ consumer_pc = "waiting"
  /\ ~cv_waiting
  /\ mtx = "free"
  /\ mtx' = "consumer"
  /\ consumer_pc' = "check"
  /\ UNCHANGED <<main_pc, cur, connected, startup, done, start_block_num,
                 start_block_reached, queue_sleep_time, queues, process_queues, sizes,
                 cv_waiting, stage, store, hist_vars, env_vars>>

MoveAssignReversed(target, source) == target

\* process_queue = move(queue): the target's old contents are replaced
MoveAssign(target, source) == source

\* queue.clear() after the move
ClearedKeep(q) == q

Cleared(q) == <<>>

\* "capture for processing": the four size/move/clear blocks, under the lock
consume_capture ==
  /\ consumer_pc = "capture"
  /\ sizes' = [s \in Streams |-> Len(queues[s])]
  /\ process_queues' =
       [s \in Streams |->
          IF Len(queues[s]) > 0 THEN MoveAssign(process_queues[s], queues[s])
                                ELSE process_queues[s]]
  /\ queues' =
       [s \in Streams |-> IF Len(queues[s]) > 0 THEN Cleared(queues[s]) ELSE queues[s]]
  /\ consumer_pc' = "unlock"
  /\ UNCHANGED <<main_pc, cur, connected, startup, done, start_block_num,
                 start_block_reached, queue_sleep_time, mtx, cv_waiting, stage, store,
                 hist_vars, env_vars>>

NextLoopOnce(pq, k) ==
  LET left == {j \in (k + 1)..Len(ProcessOrder) : pq[ProcessOrder[j]] # <<>>}
  IN IF left = {} THEN 0 ELSE CHOOSE j \in left : \A i \in left : j <= i

\* The four processing loops run one after the other, each until its buffer
\* is empty, and only the consumer touches the buffers: the loop the consumer
\* is in is the first one, from loop k on, whose buffer holds an entry; 0 when
\* all four loops are over and the final test is next.
NextLoop(pq, k) ==
  LET left == {j \in k..Len(ProcessOrder) : pq[ProcessOrder[j]] # <<>>}
  IN IF left = {} THEN 0 ELSE CHOOSE j \in left : \A i \in left : j <= i

\* lock.unlock(); and the processing loops are entered
UnlockKeep == "consumer"

Unlock == "free"

consume_unlock ==
  /\ consumer_pc = "unlock"
  /\ mtx' = Unlock
  /\ stage' = NextLoop(process_queues, 1)
  /\ consumer_pc' = IF stage' = 0 THEN "exit_check" ELSE "process"
  /\ UNCHANGED <<main_pc, cur, connected, startup, done, start_block_num,
                 start_block_reached, queue_sleep_time, queues, process_queues, sizes,
                 cv_waiting, store, hist_vars, env_vars>>

\* const auto& t = process_queue.front();
FrontLast(q) == q[Len(q)]

Front(q) == Head(q)

\* process_queue.pop_front();
PopFront(q) == Tail(q)

ProcessStubWrites(s) ==
  /\ consumer_pc = "process"
  /\ ProcessOrder[stage] = s
  /\ process_queues[s] # <<>>
  /\ processed' = [processed EXCEPT ![s] = Append(@, Front(process_queues[s]))]
  /\ store' = Append(store, [kind |-> s, id |-> Front(process_queues[s]).id, block_num |-> 0])
  /\ process_queues' = [process_queues EXCEPT ![s] = PopFront(@)]
  /\ stage' = NextLoop(process_queues', stage)
  /\ consumer_pc' = IF stage' = 0 THEN "exit_check" ELSE "process"
  /\ UNCHANGED <<main_pc, cur, connected, startup, done, start_block_num,
                 start_block_reached, queue_sleep_time, queues, sizes, mtx, cv_waiting,
                 emitted, appended, enqueues, env_vars>>

\* one iteration of the loop over a stream whose process function has its
\* body commented out: the call, then pop_front
ProcessStub(s) ==
  /\ consumer_pc = "process"
  /\ ProcessOrder[stage] = s
  /\ process_queues[s] # <<>>
  /\ processed' = [processed EXCEPT ![s] = Append(@, Front(process_queues[s]))]
  /\ process_queues' = [process_queues EXCEPT ![s] = PopFront(@)]
  /\ stage' = NextLoop(process_queues', stage)
  /\ consumer_pc' = IF stage' = 0 THEN "exit_check" ELSE "process"
  /\ UNCHANGED <<main_pc, cur, connected, startup, done, start_block_num,
                 start_block_reached, queue_sleep_time, queues, sizes, mtx, cv_waiting,
                 store, emitted, appended, enqueues, env_vars>>

process_applied_transaction == ProcessStub("transaction_trace")

process_accepted_transaction == ProcessStub("transaction_metadata")

process_irreversible_block == ProcessStub("irreversible_block_state")

\* if( !start_block_reached ) { if( bs->block_num >= start_block_num ) start_block_reached = true; }
GateByNumber(reached, block_num) == block_num >= start_block_num

GateOpen(reached, block_num) == TRUE

Gate(reached, block_num) == reached \/ block_num >= start_block_num

PopBlockExit ==
  /\ process_queues' = process_queues
  /\ stage' = stage
  /\ consumer_pc' = "exited"

\* process_accepted_block has returned: block_state_process_queue.pop_front()
\* and the loop condition is evaluated again
PopBlock ==
  /\ process_queues' = [process_queues EXCEPT !["block_state"] = PopFront(@)]
  /\ stage' = NextLoop(process_queues', stage)
  /\ consumer_pc' = IF stage' = 0 THEN "exit_check" ELSE "process"

\* the call is still inside _process_accepted_block
StayInBlock(pc) ==
  /\ process_queues' = process_queues
  /\ stage' = stage
  /\ consumer_pc' = pc

process_accepted_block_from_next ==
  /\ consumer_pc = "process"
  /\ ProcessOrder[stage] = "block_state"
  /\ process_queues["block_state"] # <<>>
  /\ LET bs == Front(process_queues["block_state"])
     IN /\ processed' = [processed EXCEPT !["block_state"] = Append(@, bs)]
        /\ start_block_reached' = Gate(start_block_reached, bs.block_num)
        /\ IF start_block_reached
             THEN StayInBlock("index_block_states")
             ELSE PopBlock
  /\ UNCHANGED <<main_pc, cur, connected, startup, done, start_block_num,
                 queue_sleep_time, queues, sizes, mtx, cv_waiting, store,
                 emitted, appended, enqueues, env_vars>>

\* process_accepted_block: the gate; with the gate closed the call returns
\* and the entry is popped
process_accepted_block ==
  /\ consumer_pc = "process"
  /\ ProcessOrder[stage] = "block_state"
  /\ process_queues["block_state"] # <<>>
  /\ LET bs == Front(process_queues["block_state"])
     IN /\ processed' = [processed EXCEPT !["block_state"] = Append(@, bs)]
        /\ start_block_reached' = Gate(start_block_reached, bs.block_num)
        /\ IF start_block_reached'
             THEN StayInBlock("index_block_states")
             ELSE PopBlock
  /\ UNCHANGED <<main_pc, cur, connected, startup, done, start_block_num,
                 queue_sleep_time, queues, sizes, mtx, cv_waiting, store,
                 emitted, appended, enqueues, env_vars>>

\* auto now = ...fc::time_point::now()...: the clock is read once, when
\* _process_accepted_block is entered; a reading is modelled by the number of
\* the call it belongs to
createAt == Len(processed["block_state"])

DocSecondReading(kind, bs) ==
  IF kind = "blocks"
    THEN [kind |-> kind, id |-> bs.id, block_num |-> bs.block_num,
          irreversible |-> FALSE, createAt |-> createAt + 1]
    ELSE [kind |-> kind, id |-> bs.id, block_num |-> bs.block_num, createAt |-> createAt]

\* block_state_doc and block_doc: id stands for block_id
Doc(kind, bs) ==
  IF kind = "blocks"
    THEN [kind |-> kind, id |-> bs.id, block_num |-> bs.block_num,
          irreversible |-> FALSE, createAt |-> createAt]
    ELSE [kind |-> kind, id |-> bs.id, block_num |-> bs.block_num, createAt |-> createAt]

index_block_states_continue ==
  /\ consumer_pc = "index_block_states"
  /\ LET bs == Front(process_queues["block_state"])
     IN \E status \in StoreAnswers :
          /\ store' = IF is_2xx(status) THEN Append(store, Doc("block_states", bs)) ELSE store
          /\ StayInBlock("to_variant_with_abi")
  /\ UNCHANGED <<main_pc, cur, connected, startup, done, start_block_num,
                 start_block_reached, queue_sleep_time, queues, sizes, mtx, cv_waiting,
                 hist_vars, env_vars>>

\* _process_accepted_block: elastic_helper->index(block_states_type, ...);
\* an answer outside 2xx throws, process_accepted_block catches and returns
index_block_states ==
  /\ consumer_pc = "index_block_states"
  /\ LET bs == Front(process_queues["block_state"])
     IN \E status \in StoreAnswers :
          IF is_2xx(status)
            THEN /\ store' = Append(store, Doc("block_states", bs))
                 /\ StayInBlock("to_variant_with_abi")
            ELSE /\ store' = store
                 /\ PopBlock
  /\ UNCHANGED <<main_pc, cur, connected, startup, done, start_block_num,
                 start_block_reached, queue_sleep_time, queues, sizes, mtx, cv_waiting,
                 hist_vars, env_vars>>

\* _process_accepted_block: block_doc["block"] = to_variant_with_abi( *bs->block );
\* the serializer resolves ABIs through get_abi_serializer (store searches) and
\* either returns or throws
to_variant_with_abi ==
  /\ consumer_pc = "to_variant_with_abi"
  /\ \E ok \in SerializerReturns :
       IF ok THEN StayInBlock("index_blocks") ELSE PopBlock
  /\ UNCHANGED <<main_pc, cur, connected, startup, done, start_block_num,
                 start_block_reached, queue_sleep_time, queues, sizes, mtx, cv_waiting,
                 store, hist_vars, env_vars>>

\* _process_accepted_block: elastic_helper->index(blocks_type, block_json);
\* then process_accepted_block returns and the entry is popped
index_blocks ==
  /\ consumer_pc = "index_blocks"
  /\ LET bs == Front(process_queues["block_state"])
     IN \E status \in StoreAnswers :
          store' = IF is_2xx(status) THEN Append(store, Doc("blocks", bs)) ELSE store
  /\ PopBlock
  /\ UNCHANGED <<main_pc, cur, connected, startup, done, start_block_num,
                 start_block_reached, queue_sleep_time, queues, sizes, mtx, cv_waiting,
                 hist_vars, env_vars>>

ExitConditionDone == done

\* the test that ends the outer loop
ExitCondition ==
  /\ sizes["transaction_metadata"] = 0
  /\ sizes["transaction_trace"] = 0
  /\ sizes["block_state"] = 0
  /\ sizes["irreversible_block_state"] = 0
  /\ done

consume_exit_check ==
  /\ consumer_pc = "exit_check"
  /\ consumer_pc' = IF ExitCondition THEN "exited" ELSE "lock"
  /\ sizes' = [s \in Streams |-> 0]
  /\ stage' = 1
  /\ UNCHANGED <<main_pc, cur, connected, startup, done, start_block_num,
                 start_block_reached, queue_sleep_time, queues, process_queues, mtx,
                 cv_waiting, store, hist_vars, env_vars>>

ConsumerNext ==
  \/ consume_lock
  \/ consume_check
  \/ consume_wait
  \/ consume_wake
  \/ consume_capture
  \/ consume_unlock
  \/ process_applied_transaction
  \/ process_accepted_transaction
  \/ process_accepted_block
  \/ index_block_states
  \/ to_variant_with_abi
  \/ index_blocks
  \/ process_irreversible_block
  \/ consume_exit_check

(***************************************************************************)
(* The ABI cache: get_abi_serializer, called by the consumer thread while  *)
(* it serializes a value with to_variant_with_abi.  The clock is read once *)
(* by a hit and once by a miss that reaches the purge; a reading returns a *)
(* value later than every earlier one.                                     *)
(***************************************************************************)
\* one account more than the cache holds
Accounts == 1..(abi_cache_size + 1)

\* account_name(): the empty name
NoName == 0

\* account_name::good()
good(n) == n # NoName

\* what a miss meets on its way to the insertion:
\*   search_failed   elastic_helper->search throws (answer outside 2xx)
\*   not_one_hit     res["hits"]["total"] != 1
\*   no_abi          the hit has no ["_source"]["abi"]
\*   not_abi_def     abi_v.as<abi_def>() throws
\*   set_abi_failed  abis.set_abi throws, FC_CAPTURE_AND_LOG swallows it
\*   ok              the entry is inserted
MissOutcomes ==
  {"search_failed", "not_one_hit", "no_abi", "not_abi_def", "set_abi_failed", "ok"}

CachedAccounts(index) == {e.account : e \in index}

\* idx.begin() of the by_last_access index
Oldest(index) ==
  CHOOSE e \in index : \A o \in index : e.last_accessed <= o.last_accessed

PurgeAbove(index) ==
  IF Cardinality(index) <= abi_cache_size THEN index
  ELSE IF index # {} THEN index \ {Oldest(index)} ELSE index

purge_abi_cache(index) ==
  IF Cardinality(index) < abi_cache_size THEN index
  ELSE IF index # {} THEN index \ {Oldest(index)} ELSE index

ModifyKeep(index, n, t) == index

\* abi_cache_index.modify( itr, ... entry.last_accessed = now() )
Modify(index, n, t) ==
  {IF e.account = n THEN [e EXCEPT !.last_accessed = t] ELSE e : e \in index}

Lookup(n, result) == [account |-> n, result |-> result]

\* the outcomes of a miss that return before purge_abi_cache is reached
ReturnsEarly(outcome) ==
  outcome \in {"search_failed", "not_one_hit", "no_abi", "not_abi_def"}

\* whether the call reads the clock: a hit does, and a miss that reaches the
\* purge does
ReadsClock(index, n, outcome) ==
  good(n) /\ (n \in CachedAccounts(index) \/ ~ReturnsEarly(outcome))

\* the optional<abi_serializer> the call returns
Returned(index, n, outcome) ==
  IF ~good(n) THEN "absent"
  ELSE IF n \in CachedAccounts(index) THEN "hit"
  ELSE IF outcome = "ok" THEN "inserted"
  ELSE "absent"

CacheAfterPurgeFirst(index, n, outcome, t) ==
  IF ~good(n) THEN index
  ELSE IF n \in CachedAccounts(index) THEN Modify(index, n, t)
  ELSE IF outcome = "ok"
    THEN purge_abi_cache(index) \cup {[account |-> n, last_accessed |-> t]}
  ELSE purge_abi_cache(index)

\* abi_cache_index when the call returns; t is the clock's next reading
CacheAfter(index, n, outcome, t) ==
  IF ~good(n) THEN index
  ELSE IF n \in CachedAccounts(index) THEN Modify(index, n, t)
  ELSE IF ReturnsEarly(outcome) THEN index
  ELSE IF outcome = "ok"
    THEN purge_abi_cache(index) \cup {[account |-> n, last_accessed |-> t]}
  ELSE purge_abi_cache(index)

get_abi_serializer ==
  /\ now < MaxLookups
  /\ \E n \in Accounts \cup {NoName}, outcome \in MissOutcomes :
       /\ abi_cache_index' = CacheAfter(abi_cache_index, n, outcome, now + 1)
       /\ returned' = Returned(abi_cache_index, n, outcome)
       /\ IF ReadsClock(abi_cache_index, n, outcome)
            THEN /\ now' = now + 1
                 /\ lookups' = Append(lookups, Lookup(n, returned'))
            ELSE UNCHANGED <<now, lookups>>
  /\ UNCHANGED <<indexer_vars, emit_limit, emit_streams, failures, blacklist_vars, store_vars>>

(***************************************************************************)
(* The blacklist plugins (plugins/blacklist_plugin/blacklist_plugin.cpp):  *)
(* producer_blacklist_plugin hashes the configured actor blacklist at      *)
(* start-up, blacklist_plugin does the same and serves check_hash.         *)
(* A std::string is a sequence of character codes.                         *)
(***************************************************************************)
\* the account names "a", "ab" and "b"
Names == {<<97>>, <<97, 98>>, <<98>>}

\* lists of at most MaxActors names, repetitions allowed
ActorLists == UNION {[1..k -> Names] : k \in 0..MaxActors}

\* std::string operator<: lexicographic, a proper prefix first
Less(a, b) ==
  \E k \in 1..Len(b) :
    /\ k <= Len(a) + 1
    /\ \A i \in 1..(k - 1) : a[i] = b[i]
    /\ (k = Len(a) + 1 \/ a[k] < b[k])

RECURSIVE Insert(_, _)
Insert(sorted, x) ==
  IF sorted = <<>> THEN <<x>>
  ELSE IF Less(x, Head(sorted)) THEN <<x>> \o sorted
  ELSE <<Head(sorted)>> \o Insert(Tail(sorted), x)

RECURSIVE SortFirst(_, _)
SortFirst(s, n) == IF n = 0 THEN <<>> ELSE Insert(SortFirst(s, n - 1), s[n])

SortNone(actors) == actors

\* sort(actors.begin(), actors.end())
Sort(actors) == SortFirst(actors, Len(actors))

\* "actor-blacklist="
Prefix == <<97, 99, 116, 111, 114, 45, 98, 108, 97, 99, 107, 108, 105, 115, 116, 61>>

LineBare(element) == Prefix \o element

\* stringStream << "actor-blacklist=" << element << "\n"
Line(element) == Prefix \o element \o <<10>>

\* apply(actors, [](std::string element){ ... })
ApplyLine(cont) == [i \in 1..Len(cont) |-> Line(cont[i])]

RECURSIVE AccumulateFirst(_, _)
AccumulateFirst(output, n) ==
  IF n = 0 THEN <<>> ELSE AccumulateFirst(output, n - 1) \o output[n]

\* std::accumulate(output.begin(), output.end(), std::string(""))
accumulate(output) == AccumulateFirst(output, Len(output))

\* std::string hash = "": no digest
EmptyString == [hex |-> FALSE, sha256_of |-> <<>>]

\* (std::string)fc::sha256::hash(str): the hex rendering of the digest of str;
\* SHA-256 is taken to be free of collisions, a digest stands for its input
sha256_hash(str) == [hex |-> TRUE, sha256_of |-> str]

generate_hash(actors) == sha256_hash(accumulate(ApplyLine(Sort(actors))))

\* producer_blacklist_plugin::plugin_initialize hashes the option in line
StartupHash(blacklist_actors) ==
  LET sorted == Sort(blacklist_actors)
      output == ApplyLine(sorted)
      actor_blacklist_str == accumulate(output)
  IN sha256_hash(actor_blacklist_str)

\* std::string::npos; positions of a string count from 1
npos == 0

\* str.find(sub)
Find(str, sub) ==
  LET hits == {i \in 1..(Len(str) - Len(sub) + 1) : SubSeq(str, i, i + Len(sub) - 1) = sub}
  IN IF hits = {} THEN npos ELSE CHOOSE i \in hits : \A j \in hits : i <= j

\* "=", ":", "KEY", "KEOSD"
EqualsSign == <<61>>
Colon == <<58>>
KEY == <<75, 69, 89>>
KEOSD == <<75, 69, 79, 83, 68>>

\* "P" stands for the one text public_key_type(...) accepts, "V" for the one
\* text fc::crypto::private_key(...) accepts; the constructors throw on any other
PublicKeyText == <<80>>
PrivateKeyText == <<86>>

\* a key after construction, and a key loaded from a text
NoKey == [set |-> FALSE, text |-> <<>>]
KeyOf(text) == [set |-> TRUE, text |-> text]

NoKeys == [_blacklist_private_key |-> NoKey, _blacklist_public_key |-> NoKey]

\* the statements of the inner try block: the keys they leave behind and
\* whether an exception left the block
LoadSignatureProvider(key_spec_pair, keys) ==
  LET delim == Find(key_spec_pair, EqualsSign)
      pub_key_str == SubSeq(key_spec_pair, 1, delim - 1)
      spec_str == SubSeq(key_spec_pair, delim + 1, Len(key_spec_pair))
      spec_delim == Find(spec_str, Colon)
      spec_type_str == SubSeq(spec_str, 1, spec_delim - 1)
      spec_data == SubSeq(spec_str, spec_delim + 1, Len(spec_str))
  IN IF delim = npos THEN [thrown |-> TRUE, keys |-> keys]
     ELSE IF spec_delim = npos THEN [thrown |-> TRUE, keys |-> keys]
     ELSE IF pub_key_str # PublicKeyText THEN [thrown |-> TRUE, keys |-> keys]
     ELSE IF spec_type_str = KEY
       THEN IF spec_data # PrivateKeyText
              THEN [thrown |-> TRUE, keys |-> keys]
              ELSE [thrown |-> FALSE,
                    keys |-> [_blacklist_private_key |-> KeyOf(spec_data),
                              _blacklist_public_key |-> KeyOf(pub_key_str)]]
       ELSE [thrown |-> FALSE, keys |-> keys]

InnerTryRethrow(outcome) == outcome

\* try { ... } catch (...) { elog(...) }
InnerTry(outcome) == [outcome EXCEPT !.thrown = FALSE]

\* chain.get_actor_blacklist() is a flat_set<account_name>, iterated in the
\* order of the names, which is the order of their to_string() texts
RECURSIVE get_local_actor_blacklist(_)
get_local_actor_blacklist(actor_blacklist) ==
  IF actor_blacklist = {} THEN <<>>
  ELSE LET first == CHOOSE x \in actor_blacklist :
                      \A y \in actor_blacklist \ {x} : Less(x, y)
       IN <<first>> \o get_local_actor_blacklist(actor_blacklist \ {first})

RECURSIVE OnchainFirst(_, _)
OnchainFirst(rows, n) ==
  IF n = 0 THEN <<>>
  ELSE OnchainFirst(rows, n - 1)
         \o (IF rows[n].type = "actor-blacklist" THEN rows[n].accounts ELSE <<>>)

\* the first variant of the function: the loop only logs the rows
get_onchain_actor_blacklist_logging(rows) == <<>>

\* the tables hold at most MaxRows rows, fewer than the limit of 100
get_onchain_actor_blacklist(rows) == OnchainFirst(rows, Len(rows))

get_submitted_hash_no_break(rows, name) ==
  LET matching == {i \in 1..Len(rows) : rows[i].producer = name}
  IN IF matching = {} THEN EmptyString
     ELSE rows[CHOOSE i \in matching : \A j \in matching : j <= i].hash

\* the loop over the rows, left by break at the first row of the producer
get_submitted_hash(rows, name) ==
  LET matching == {i \in 1..Len(rows) : rows[i].producer = name}
  IN IF matching = {} THEN EmptyString
     ELSE rows[CHOOSE i \in matching : \A j \in matching : i <= j].hash

MessageUnlessSubmitted(local_hash, ecaf_hash, submitted_hash) ==
  IF local_hash # ecaf_hash THEN "local and ecaf hash MISMATCH!"
  ELSE IF submitted_hash # EmptyString /\ local_hash # submitted_hash
    THEN "local and submitted hash MISMATCH!"
  ELSE "OK"

MessageSubmittedFirst(local_hash, ecaf_hash, submitted_hash) ==
  IF local_hash # submitted_hash THEN "local and submitted hash MISMATCH!"
  ELSE IF local_hash # ecaf_hash THEN "local and ecaf hash MISMATCH!"
  ELSE "OK"

\* ret.msg of check_hash
Message(local_hash, ecaf_hash, submitted_hash) ==
  IF local_hash # ecaf_hash THEN "local and ecaf hash MISMATCH!"
  ELSE IF local_hash # submitted_hash THEN "local and submitted hash MISMATCH!"
  ELSE "OK"

Plugins == {"producer_blacklist_plugin", "blacklist_plugin"}

\* an option of the variables_map: options.count(name) and options[name]
NoOption == [count |-> 0, value |-> <<>>]
Option(value) == [count |-> 1, value |-> value]

\* the declared default "HEARTBEAT_PUB_KEY=KEY:HEARTBEAT_PRIVATE_KEY": the
\* right shape around two texts that are not keys
DefaultProvider == PrivateKeyText \o EqualsSign \o KEY \o Colon \o PublicKeyText

DefaultOptions ==
  [producer_name |-> Option(<< <<97>> >>),
   actor_blacklist |-> NoOption,
   signature_provider |-> DefaultProvider]

EmptyChain == [actor_blacklist |-> {}, theblacklist |-> <<>>, producerhash |-> <<>>]

Tables(rows) == UNION {[1..k -> rows] : k \in 0..MaxRows}

\* rows of the table theblacklist
ListRows == {[type |-> "actor-blacklist", accounts |-> l] : l \in ActorLists}

SmallRows ==
  {[type |-> t, accounts |-> l] :
     t \in {"actor-blacklist", "contract-blacklist"},
     l \in {<<>>, << <<97>> >>, << <<98>>, <<97>> >>}}

\* rows of the table producerhash: what a producer submitted is the empty
\* text or the digest of some serialized list
SubmittedHashes ==
  {EmptyString, sha256_hash(<<>>), sha256_hash(Line(<<97>>)),
   sha256_hash(Line(<<97>>) \o Line(<<98>>))}

HashRows == {[producer |-> p, hash |-> h] : p \in {<<97>>, <<98>>}, h \in SubmittedHashes}

RECURSIVE FlattenFirst(_, _)
FlattenFirst(tokens, n) ==
  IF n = 0 THEN <<>> ELSE FlattenFirst(tokens, n - 1) \o tokens[n]

\* the values of blacklist-signature-provider: texts made of the pieces the
\* parser looks for
ProviderValues ==
  LET Tokens == {EqualsSign, Colon, KEY, KEOSD, PublicKeyText, PrivateKeyText}
  IN {FlattenFirst(t, Len(t)) : t \in UNION {[1..k -> Tokens] : k \in 0..MaxTokens}}

\* the configurations and chain states the plugins are run in:
\* any configured list against any single on-chain row,
ConfiguredLists ==
  \E o \in {NoOption} \cup {Option(l) : l \in ActorLists},
     t \in {<<>>} \cup {<<r>> : r \in ListRows} :
    /\ options = [DefaultOptions EXCEPT !.actor_blacklist = o]
    /\ chain = [EmptyChain EXCEPT !.theblacklist = t]

\* any controller blacklist against several on-chain rows,
ChainRows ==
  \E a \in SUBSET Names,
     t \in Tables(SmallRows),
     h \in {<<>>} \cup {<<[producer |-> <<97>>, hash |-> x]>> : x \in SubmittedHashes} :
    /\ options = DefaultOptions
    /\ chain = [actor_blacklist |-> a, theblacklist |-> t, producerhash |-> h]

\* any controller blacklist against several submitted hashes,
ChainHashes ==
  \E a \in SUBSET Names,
     t \in {<<>>, <<[type |-> "actor-blacklist", accounts |-> << <<98>>, <<97>> >>]>>},
     h \in Tables(HashRows) :
    /\ options = DefaultOptions
    /\ chain = [actor_blacklist |-> a, theblacklist |-> t, producerhash |-> h]

\* and any provider text
ProviderTexts ==
  \E v \in ProviderValues :
    /\ options = [DefaultOptions EXCEPT !.signature_provider = v]
    /\ chain = EmptyChain

Environment == ConfiguredLists \/ ChainRows \/ ChainHashes \/ ProviderTexts

NoStats ==
  [local_hash |-> EmptyString, ecaf_hash |-> EmptyString, submitted_hash |-> EmptyString,
   msg |-> ""]

\* member initialisers of the two impl classes
InitBlacklistPlugins ==
  /\ bl_pc = [p \in Plugins |-> "constructed"]
  /\ producer_name = [p \in Plugins |-> <<>>]
  /\ actor_blacklist_hash = [p \in Plugins |-> EmptyString]
  /\ blacklist_keys = [p \in Plugins |-> NoKeys]
  /\ stats = NoStats

\* how each plugin_initialize hashes the actor-blacklist option
OptionHash(p, blacklist_actors) ==
  IF p = "producer_blacklist_plugin"
    THEN StartupHash(blacklist_actors)
    ELSE generate_hash(blacklist_actors)

\* plugin_initialize of either plugin
initialize(p) ==
  /\ bl_pc[p] = "constructed"
  /\ producer_name' =
       [producer_name EXCEPT ![p] = IF options.producer_name.count > 0
                                     THEN options.producer_name.value[1]
                                     ELSE @]
  /\ actor_blacklist_hash' =
       [actor_blacklist_hash EXCEPT ![p] = IF options.actor_blacklist.count > 0
                                            THEN OptionHash(p, options.actor_blacklist.value)
                                            ELSE @]
  /\ LET outcome == InnerTry(LoadSignatureProvider(options.signature_provider,
                                                   blacklist_keys[p]))
     IN /\ blacklist_keys' = [blacklist_keys EXCEPT ![p] = outcome.keys]
        \* FC_LOG_AND_RETHROW: an exception that leaves the inner try leaves
        \* plugin_initialize
        /\ bl_pc' = [bl_pc EXCEPT ![p] = IF outcome.thrown THEN "aborted"
                                         ELSE "initialized"]
  /\ UNCHANGED <<options, chain, stats>>
  /\ UNCHANGED <<indexer_vars, emit_limit, emit_streams, failures, cache_vars, store_vars>>

producer_blacklist_plugin_initialize == initialize("producer_blacklist_plugin")

blacklist_plugin_initialize == initialize("blacklist_plugin")

\* the API is registered by plugin_startup, after plugin_initialize
check_hash ==
  /\ bl_pc["blacklist_plugin"] = "initialized"
  /\ LET local_blacklist_accounts == get_local_actor_blacklist(chain.actor_blacklist)
         onchain_blacklist_accounts == get_onchain_actor_blacklist(chain.theblacklist)
         local_hash == generate_hash(local_blacklist_accounts)
         ecaf_hash == generate_hash(onchain_blacklist_accounts)
         submitted_hash ==
           get_submitted_hash(chain.producerhash, producer_name["blacklist_plugin"])
     IN stats' = [local_hash |-> local_hash,
                  ecaf_hash |-> ecaf_hash,
                  submitted_hash |-> submitted_hash,
                  msg |-> Message(local_hash, ecaf_hash, submitted_hash)]
  /\ UNCHANGED <<options, chain, bl_pc, producer_name, actor_blacklist_hash,
                 blacklist_keys>>
  /\ UNCHANGED <<indexer_vars, emit_limit, emit_streams, failures, cache_vars, store_vars>>

(***************************************************************************)
(* The document-store client.  The sources hold three versions of it:      *)
(* class elasticsearch_client (elasticsearch_client.cpp), and two versions *)
(* of class elasticsearch_helper: the one the indexer is written against   *)
(* (index, init_index, delete_index, count_doc, search) and an earlier one *)
(* (elasticsearch_helper.cpp: update, init_index, delete_index).           *)
(***************************************************************************)
Clients == {"elasticsearch_client", "elasticsearch_helper", "elasticsearch_helper_update"}

\* the operations each version defines (bulk_perform, which looks at an
\* error count and at no status code, is left out)
Operations(client) ==
  CASE client = "elasticsearch_client" ->
         {"index", "init_index", "delete_index", "count_doc", "search", "delete_by_query"}
    [] client = "elasticsearch_helper" ->
         {"index", "init_index", "delete_index", "count_doc", "search"}
    [] client = "elasticsearch_helper_update" ->
         {"update", "init_index", "delete_index"}

\* what the store may answer: every status code at any time, except that a
\* DELETE of an index that does not exist is not answered with a 2xx
\* ("retrn status code 404 if index not exists")
Answers(op, exists) ==
  IF op = "delete_index" /\ ~exists
    THEN {status \in Statuses : ~is_2xx(status)}
    ELSE Statuses

\* the index after the request: a DELETE answered 2xx removes it, a PUT
\* answered 2xx creates it
IndexAfter(op, status, exists) ==
  IF ~is_2xx(status) THEN exists
  ELSE IF op = "delete_index" THEN FALSE
  ELSE IF op = "init_index" THEN TRUE
  ELSE exists

\* how the call ends when the transport fails: client.performRequest throws
\* elasticlient::ConnectionException, which only the earlier helper converts
TransportFailure(client) ==
  IF client = "elasticsearch_helper_update"
    THEN "elastic_connection_exception"
    ELSE "ConnectionException"

\* how the call ends on an answer with this status code
Result(client, op, status) ==
  CASE client = "elasticsearch_client" ->
         IF op = "delete_index" \/ is_2xx(status)
           THEN "returned" ELSE "response_code_exception"
    [] client = "elasticsearch_helper" ->
         IF is_2xx(status) THEN "returned" ELSE "response_code_exception"
    [] client = "elasticsearch_helper_update" ->
         IF status = 200 THEN "returned" ELSE "response_code_exception"

\* no request made yet; a failed transport leaves no status code
NoRequest == [client |-> "none", op |-> "none", status |-> 0, result |-> "none"]

\* one call of `op` on one of the versions that define it
Request(op) ==
  \E client \in {c \in Clients : op \in Operations(c)} :
    \/ /\ call' = [client |-> client, op |-> op, status |-> 0,
                   result |-> TransportFailure(client)]
       /\ index_exists' = index_exists
    \/ \E status \in Answers(op, index_exists) :
         /\ call' = [client |-> client, op |-> op, status |-> status,
                     result |-> Result(client, op, status)]
         /\ index_exists' = IndexAfter(op, status, index_exists)

OnlyStore == UNCHANGED <<indexer_vars, emit_limit, emit_streams, failures, cache_vars, blacklist_vars>>

client_index == Request("index") /\ OnlyStore

client_update == Request("update") /\ OnlyStore

client_init_index == Request("init_index") /\ OnlyStore

client_delete_index == Request("delete_index") /\ OnlyStore

client_count_doc == Request("count_doc") /\ OnlyStore

client_search == Request("search") /\ OnlyStore

client_delete_by_query == Request("delete_by_query") /\ OnlyStore

(***************************************************************************)
(* Specifications.                                                         *)
(***************************************************************************)
\* the multi-index container starts empty
InitCache ==
  /\ abi_cache_index = {}
  /\ now = 0
  /\ lookups = <<>>
  /\ returned = "none"

InitComponents ==
  /\ InitCache
  /\ InitBlacklistPlugins
  /\ options = DefaultOptions
  /\ chain = EmptyChain
  /\ index_exists = FALSE
  /\ call = NoRequest

Init ==
  /\ InitImpl
  /\ InitComponents
  /\ emit_limit = MaxEvents
  /\ emit_streams = Streams
  /\ failures = TRUE

InitLoad ==
  /\ InitImpl
  /\ InitComponents
  /\ emit_limit = LoadEvents
  /\ emit_streams = {"transaction_trace"}
  /\ failures = TRUE

Next ==
  \/ InitializeNext
  \/ ProducerNext
  \/ ShutdownNext
  \/ ConsumerNext
  \/ spurious_wakeup

Spec == Init /\ [][Next]_vars

\* sustained load: the controller keeps emitting on one stream while the
\* consumer thread is not scheduled
NextLoad ==
  \/ InitializeNext
  \/ ProducerNext

SpecLoad == InitLoad /\ [][NextLoad]_vars

\* a burst of events on one stream with both threads running
InitBurst ==
  /\ InitImpl
  /\ InitComponents
  /\ emit_limit = BurstEvents
  /\ emit_streams = {"transaction_trace"}
  /\ failures = TRUE

\* the controller emits SharedEvents transactions, as traces and as metadata
InitShared ==
  /\ InitImpl
  /\ InitComponents
  /\ emit_limit = SharedEvents
  /\ emit_streams = {"transaction_trace", "transaction_metadata"}
  /\ failures = TRUE

\* the steps of consume_blocks that a trace goes through
DrainNext ==
  \/ consume_lock
  \/ consume_check
  \/ consume_wait
  \/ consume_wake
  \/ consume_capture
  \/ consume_unlock
  \/ process_applied_transaction
  \/ consume_exit_check

NextBurst ==
  \/ InitializeNext
  \/ ProducerNext
  \/ DrainNext

NextShared ==
  \/ InitializeNext
  \/ ProducerNext
  \/ DrainNext
  \/ process_accepted_transaction

SpecShared == InitShared /\ [][NextShared]_vars

SpecBurst == InitBurst /\ [][NextBurst]_vars

\* the indexer against a store that answers every call with 2xx and a
\* serializer that returns
InitHealthy ==
  /\ InitImpl
  /\ InitComponents
  /\ emit_limit = MaxEvents
  /\ emit_streams = Streams
  /\ failures = FALSE

SpecHealthy == InitHealthy /\ [][Next]_vars

\* the serializer at work inside _process_accepted_block: the resolver it was
\* given calls get_abi_serializer, up to MaxResolves times in all
resolve_abi ==
  /\ consumer_pc = "to_variant_with_abi"
  /\ now < MaxResolves
  /\ get_abi_serializer

\* the controller emits ResolveEvents accepted blocks; the store answers 2xx
InitResolve ==
  /\ InitImpl
  /\ InitComponents
  /\ emit_limit = ResolveEvents
  /\ emit_streams = {"block_state"}
  /\ failures = FALSE

\* the steps of consume_blocks that an accepted block goes through
BlockDrainNext ==
  \/ consume_lock
  \/ consume_check
  \/ consume_wait
  \/ consume_wake
  \/ consume_capture
  \/ consume_unlock
  \/ process_accepted_block
  \/ index_block_states
  \/ to_variant_with_abi
  \/ resolve_abi
  \/ index_blocks
  \/ consume_exit_check

NextResolve ==
  \/ InitializeNext
  \/ ProducerNext
  \/ BlockDrainNext

SpecResolve == InitResolve /\ [][NextResolve]_vars

\* the ABI cache alone: any sequence of lookups
NextCache == get_abi_serializer

SpecCache == Init /\ [][NextCache]_vars

\* the blacklist plugins alone, in each of the environments
InitBlacklist ==
  /\ InitImpl
  /\ InitCache
  /\ index_exists = FALSE
  /\ call = NoRequest
  /\ InitBlacklistPlugins
  /\ emit_limit = MaxEvents
  /\ emit_streams = Streams
  /\ failures = TRUE
  /\ Environment

NextBlacklist ==
  \/ producer_blacklist_plugin_initialize
  \/ blacklist_plugin_initialize
  \/ check_hash

SpecBlacklist == InitBlacklist /\ [][NextBlacklist]_vars

\* the store client alone, against a store with or without the index
InitStore ==
  /\ InitImpl
  /\ InitCache
  /\ InitBlacklistPlugins
  /\ options = DefaultOptions
  /\ chain = EmptyChain
  /\ emit_limit = MaxEvents
  /\ emit_streams = Streams
  /\ failures = TRUE
  /\ index_exists \in BOOLEAN
  /\ call = NoRequest

NextStore ==
  \/ client_index
  \/ client_update
  \/ client_init_index
  \/ client_delete_index
  \/ client_count_doc
  \/ client_search
  \/ client_delete_by_query

SpecStore == InitStore /\ [][NextStore]_vars

\* fair scheduling of both threads: a thread that can take a step of the
\* code it is in eventually takes it.  Nothing obliges the controller to emit
\* a signal or the host to shut down, and a spurious wakeup is never
\* guaranteed.
FairSpec ==
  /\ Init
  /\ [][Next]_vars
  /\ WF_vars(InitializeNext \/ QueueNext \/ DestructorNext)
  /\ WF_vars(ConsumerNext)

\* the plugin at work: both threads run and plugin_shutdown is not called
NextRunning ==
  \/ InitializeNext
  \/ ProducerNext
  \/ ConsumerNext
  \/ spurious_wakeup

FairRunning ==
  /\ Init
  /\ [][NextRunning]_vars
  /\ WF_vars(InitializeNext \/ QueueNext)
  /\ WF_vars(ConsumerNext)

(***************************************************************************)
(* Properties.                                                             *)
(***************************************************************************)
\* the consumer is inside _process_accepted_block, on the front entry
BlockCallPcs == {"index_block_states", "to_variant_with_abi", "index_blocks"}

\* the entries of a processing buffer not yet handed to the process function
Pending(s) ==
  IF s = "block_state" /\ consumer_pc \in BlockCallPcs
    THEN Tail(process_queues[s])
    ELSE process_queues[s]

Ids(q) == {q[i].id : i \in 1..Len(q)}

\* the callback in progress has not reached emplace_back yet
BeforePush ==
  main_pc \in {"queue_lock", "queue_over_unlock", "queue_over_notify", "queue_sleep",
               "queue_push"}

IsPrefix(p, q) == Len(p) <= Len(q) /\ \A i \in 1..Len(p) : p[i] = q[i]

\* C1: every entry appended to a shared queue is handed to its stream's
\* process function exactly once: at any moment each appended entry is in
\* exactly one place (already handed, waiting in the processing buffer, or
\* still in the shared queue), no entry is handed twice, and when the
\* consumer thread has left its loop every appended entry has been handed.
ProcessedExactlyOnce ==
  \A s \in Streams :
    /\ \A i, j \in 1..Len(processed[s]) :
         i # j => processed[s][i].id # processed[s][j].id
    /\ Len(processed[s]) + Len(Pending(s)) + Len(queues[s]) = Len(appended[s])
    /\ Ids(processed[s]) \cup Ids(Pending(s)) \cup Ids(queues[s]) = Ids(appended[s])
    /\ consumer_pc = "exited" => Ids(processed[s]) = Ids(appended[s])

\* C1 witness: one entry has been handed to its process function while a
\* later one, enqueued meanwhile, waits in a shared queue.
ProcessedWhileEnqueued ==
  /\ \E s \in Streams : processed[s] # <<>>
  /\ \E s \in Streams : queues[s] # <<>>
  /\ consumer_pc \in {"process"} \cup BlockCallPcs

\* C2: once the destructor has set done, the consumer thread eventually
\* leaves consume_blocks (so that join returns).
ShutdownTerminates == done ~> (consumer_pc = "exited")

\* C3: within each stream the entries are handed to the process function in
\* the order the controller emitted them, and the documents of the accepted
\* blocks are written in that order.
KindIds(kind) ==
  LET F[i \in 0..Len(store)] ==
        IF i = 0 THEN <<>>
        ELSE IF store[i].kind = kind THEN Append(F[i - 1], store[i].id) ELSE F[i - 1]
  IN F[Len(store)]

Increasing(q) == \A i, j \in 1..Len(q) : i < j => q[i] < q[j]

ProcessedInEmissionOrder ==
  /\ \A s \in Streams : IsPrefix(processed[s], emitted[s])
  /\ Increasing(KindIds("block_states"))
  /\ Increasing(KindIds("blocks"))

\* C3 witness: two accepted blocks have been processed and indexed.
TwoBlocksIndexed ==
  /\ Len(processed["block_state"]) = 2
  /\ Len(KindIds("block_states")) = 2
  /\ Len(KindIds("blocks")) = 2

\* C4: each shared queue holds at most max_queue_size + 1 entries.
QueueSizeBounded == \A s \in Streams : Len(queues[s]) <= max_queue_size + 1

\* C5: every callback returns with its entry appended exactly once to the
\* tail of its own stream's queue, also when the queue was over capacity:
\* outside a callback every emitted entry has been appended, inside one only
\* the entry in hand may still be missing, and the one append of a call puts
\* the entry in hand at the tail of its own queue and touches no other queue.
EnqueueInv ==
  \A s \in Streams :
    emitted[s] = IF cur.stream = s /\ BeforePush
                   THEN Append(appended[s], cur.entry)
                   ELSE appended[s]

EnqueueStep ==
  appended' # appended =>
    /\ appended' = [appended EXCEPT ![cur.stream] = Append(@, cur.entry)]
    /\ queues' = [queues EXCEPT ![cur.stream] = Append(@, cur.entry)]

EnqueuedExactlyOnceAtTail == []EnqueueInv /\ [][EnqueueStep]_vars

\* C5 witness: a callback that found its queue over capacity has returned.
OverCapacityCallReturned ==
  /\ main_pc = "idle"
  /\ queue_sleep_time > 0
  /\ appended = emitted
  /\ Total(appended) > 1

\* C6 as stated: queue_sleep_time stays within [0, 1000].
SleepWithinCap == queue_sleep_time >= 0 /\ queue_sleep_time <= SleepWarn

\* C6 as amended: queue_sleep_time is never negative and is a multiple of 10
\* that grows by at most 10 per enqueue; nothing caps it at 1000.
SleepNonNegative ==
  /\ queue_sleep_time >= 0
  /\ queue_sleep_time % SleepStep = 0
  /\ queue_sleep_time <= SleepStep * Total(emitted)

\* C6 witness: the sleep has passed 1000 ms.
SleepAboveCap == queue_sleep_time > SleepWarn

\* C7: the consumer never holds the queue mutex while it processes entries
\* or performs store I/O.
ConsumerIOUnlocked ==
  consumer_pc \in ({"process", "exit_check"} \cup BlockCallPcs) => mtx # "consumer"

\* C7 witness: the consumer is in a store call while the producer holds the
\* mutex.
IOWhileProducerLocked == consumer_pc = "index_blocks" /\ mtx = "main"

\* C8: in a drain cycle an entry of a later stream is handed to its process
\* function only when the buffers of all earlier streams (traces, then
\* metadata, then accepted blocks, then irreversible blocks) are empty.
Handed(s) == processed'[s] # processed[s]

FixedStreamOrderStep ==
  /\ Handed("transaction_metadata") => process_queues["transaction_trace"] = <<>>
  /\ Handed("block_state") =>
       /\ process_queues["transaction_trace"] = <<>>
       /\ process_queues["transaction_metadata"] = <<>>
  /\ Handed("irreversible_block_state") =>
       /\ process_queues["transaction_trace"] = <<>>
       /\ process_queues["transaction_metadata"] = <<>>
       /\ process_queues["block_state"] = <<>>

FixedStreamOrder == [][FixedStreamOrderStep]_vars

\* C8 witness: one cycle drained a trace and a metadata entry and has
\* processed both.
TwoStreamsInOneCycle ==
  /\ sizes["transaction_trace"] = 1
  /\ sizes["transaction_metadata"] = 1
  /\ consumer_pc = "exit_check"

\* C9: once start_block_reached is true no step sets it back to false.
StartBlockReachedSticky == [][start_block_reached => start_block_reached']_vars

\* C9 witness: process_accepted_block has set the flag, and a block below
\* the threshold has been processed after it.
GateTrippedThenLowBlock ==
  /\ start_block_num > 0
  /\ start_block_reached
  /\ \E i, j \in 1..Len(processed["block_state"]) :
       /\ i < j
       /\ processed["block_state"][i].block_num >= start_block_num
       /\ processed["block_state"][j].block_num < start_block_num

\* C10 as stated: no document of an accepted block below start_block_num is
\* ever written.
BlockDocs == {i \in 1..Len(store) : store[i].kind \in {"block_states", "blocks"}}

CacheWithinBound == Cardinality(abi_cache_index) <= abi_cache_size

\* a miss has been inserted into a cache that was full
InsertedIntoFullCache ==
  /\ Cardinality(abi_cache_index) = abi_cache_size
  /\ Len(lookups) > abi_cache_size
  /\ lookups[Len(lookups)].result = "inserted"

Last(h) == h[Len(h)]

\* the position in h of the latest lookup of account a
LatestUse(h, a) ==
  CHOOSE i \in 1..Len(h) :
    /\ h[i].account = a
    /\ \A j \in (i + 1)..Len(h) : h[j].account # a

\* a step that inserts a miss into a full cache removes exactly the entry
\* whose latest hit or insertion lies furthest back, and a hit removes none
EvictsLeastRecentlyUsed ==
  (lookups' # lookups /\ Last(lookups').result = "inserted"
     /\ Cardinality(abi_cache_index) = abi_cache_size)
    => \E victim \in CachedAccounts(abi_cache_index) :
         /\ CachedAccounts(abi_cache_index')
              = (CachedAccounts(abi_cache_index) \ {victim}) \cup {Last(lookups').account}
         /\ \A a \in CachedAccounts(abi_cache_index) \ {victim} :
              LatestUse(lookups, victim) < LatestUse(lookups, a)

HitKeepsEntries ==
  (lookups' # lookups /\ Last(lookups').result = "hit")
    => CachedAccounts(abi_cache_index') = CachedAccounts(abi_cache_index)

\* the lookups A, B, C, A, D of the scenario, for a bound of abi_cache_size:
\* fill the cache with 1..abi_cache_size, hit 1, miss abi_cache_size + 1
ScenarioLookups ==
  [i \in 1..(abi_cache_size + 2) |->
     IF i <= abi_cache_size THEN Lookup(i, "inserted")
     ELSE IF i = abi_cache_size + 1 THEN Lookup(1, "hit")
     ELSE Lookup(abi_cache_size + 1, "inserted")]

ScenarioEvictsSecond ==
  lookups = ScenarioLookups
    => CachedAccounts(abi_cache_index) = (1..(abi_cache_size + 1)) \ {2}

\* C12: a miss inserted into a full cache evicts the entry whose last access
\* (insertion or hit) is oldest; the lookups A, B, C, A, D evict B.
EvictionIsLeastRecentlyUsed ==
  /\ []ScenarioEvictsSecond
  /\ [][EvictsLeastRecentlyUsed /\ HitKeepsEntries]_vars

ScenarioPlayed == lookups = ScenarioLookups

(***************************************************************************)
(* The blacklist plugins.                                                  *)
(***************************************************************************)
Count(list, x) == Cardinality({i \in 1..Len(list) : list[i] = x})

Elements(list) == {list[i] : i \in 1..Len(list)}

\* one list is a rearrangement of the other
SameBag(s, t) ==
  /\ Len(s) = Len(t)
  /\ \A x \in Elements(s) \cup Elements(t) : Count(s, x) = Count(t, x)

\* the lists hashed so far, each with the hash it was given: the configured
\* list by either plugin_initialize, the local and the on-chain list by
\* check_hash
Hashed ==
  {[actors |-> options.actor_blacklist.value, hash |-> actor_blacklist_hash[p]] :
     p \in {q \in Plugins : bl_pc[q] = "initialized" /\ options.actor_blacklist.count > 0}}
  \cup
  (IF stats.msg = "" THEN {}
   ELSE {[actors |-> get_local_actor_blacklist(chain.actor_blacklist),
          hash |-> stats.local_hash],
         [actors |-> get_onchain_actor_blacklist(chain.theblacklist),
          hash |-> stats.ecaf_hash]})

\* C13: the hash of an account list does not depend on the order of the list:
\* two lists that are rearrangements of each other get the same hash.
HashPermutationInvariant ==
  \A x, y \in Hashed : SameBag(x.actors, y.actors) => x.hash = y.hash

TwoOrdersHashed ==
  \E x, y \in Hashed :
    /\ x.actors # y.actors
    /\ SameBag(x.actors, y.actors)
    /\ Len(x.actors) = MaxActors
    /\ x.hash = y.hash

Ascending(t) == \A i \in 1..(Len(t) - 1) : t[i] = t[i + 1] \/ Less(t[i], t[i + 1])

\* the rearrangements of a list in ascending string order
Arrangements(actors) ==
  {t \in [1..Len(actors) -> Elements(actors)] : SameBag(t, actors) /\ Ascending(t)}

\* the lines actor-blacklist=<name>\n of the names of t, one after the other
RECURSIVE Lines(_)
Lines(t) ==
  IF t = <<>> THEN <<>>
  ELSE <<97, 99, 116, 111, 114, 45, 98, 108, 97, 99, 107, 108, 105, 115, 116, 61>>
         \o Head(t) \o <<10>> \o Lines(Tail(t))

\* C14: what is given to SHA-256 is the concatenation, in ascending string
\* order of the names, of the lines actor-blacklist=<name>\n, hence the empty
\* text for an empty list; the start-up hash of the actor-blacklist option is
\* made from the same serialization.
CanonicalSerialization ==
  \A x \in Hashed :
    \E t \in Arrangements(x.actors) : x.hash = [hex |-> TRUE, sha256_of |-> Lines(t)]

UnsortedOptionHashed ==
  /\ \A p \in Plugins : bl_pc[p] = "initialized"
  /\ options.actor_blacklist.count > 0
  /\ Len(options.actor_blacklist.value) = MaxActors
  /\ ~Ascending(options.actor_blacklist.value)
  /\ stats.msg # ""

\* C15: the message of check_hash follows a strict priority: the local/ecaf
\* mismatch is reported whenever the local and the on-chain hash differ,
\* whatever the submitted hash; the local/submitted mismatch only when they
\* agree and the submitted hash differs; OK only when all three agree.
MessagePriority ==
  stats.msg # "" =>
    /\ stats.local_hash # stats.ecaf_hash => stats.msg = "local and ecaf hash MISMATCH!"
    /\ (stats.local_hash = stats.ecaf_hash /\ stats.local_hash # stats.submitted_hash)
         => stats.msg = "local and submitted hash MISMATCH!"
    /\ (stats.local_hash = stats.ecaf_hash /\ stats.local_hash = stats.submitted_hash)
         => stats.msg = "OK"

BothMismatch ==
  /\ stats.msg = "local and ecaf hash MISMATCH!"
  /\ stats.local_hash # stats.submitted_hash
  /\ stats.submitted_hash # EmptyString

\* the one well-formed value that names scheme KEY and two texts that are keys
KeyProvider == <<80, 61, 75, 69, 89, 58, 86>>

\* C20: no blacklist-signature-provider value aborts plugin_initialize; a
\* value without "=" or without ":", or with a text that is not a key, leaves
\* both keys unset; the key pair is stored only for scheme KEY, and stays
\* unset for KEOSD and every other scheme.
ProviderNeverAborts ==
  \A p \in Plugins :
    /\ bl_pc[p] # "aborted"
    /\ bl_pc[p] = "initialized" =>
         blacklist_keys[p] =
           IF options.signature_provider = KeyProvider
             THEN [_blacklist_private_key |-> [set |-> TRUE, text |-> <<86>>],
                   _blacklist_public_key |-> [set |-> TRUE, text |-> <<80>>]]
             ELSE [_blacklist_private_key |-> [set |-> FALSE, text |-> <<>>],
                   _blacklist_public_key |-> [set |-> FALSE, text |-> <<>>]]
    /\ bl_pc[p] = "constructed" =>
         blacklist_keys[p] =
           [_blacklist_private_key |-> [set |-> FALSE, text |-> <<>>],
            _blacklist_public_key |-> [set |-> FALSE, text |-> <<>>]]

MalformedProviderIgnored ==
  /\ \A p \in Plugins : bl_pc[p] = "initialized"
  /\ Find(options.signature_provider, <<58>>) # 0
  /\ Find(options.signature_provider, <<61>>) = 0

(***************************************************************************)
(* Errors while an event is processed.                                     *)
(***************************************************************************)
\* a store call or the serialization of the block in progress throws
CallThrows ==
  /\ consumer_pc \in BlockCallPcs
  /\ consumer_pc' \notin BlockCallPcs
  /\ store' = store

\* the step in which a call throws removes the failed event from its buffer,
\* keeps every later event, hands nothing a second time and leaves the
\* consumer inside its loop
ThrowKeepsLoopGoing ==
  CallThrows =>
    /\ process_queues' =
         [process_queues EXCEPT !["block_state"] = Tail(process_queues["block_state"])]
    /\ queues' = queues
    /\ processed' = processed
    /\ consumer_pc' \in {"process", "exit_check"}

\* no event is handed to its process function twice, and when the consumer
\* has left its loop every event appended to a queue has been handed
HandedOnceAndAll ==
  \A s \in Streams :
    /\ \A i, j \in 1..Len(processed[s]) : processed[s][i] = processed[s][j] => i = j
    /\ consumer_pc = "exited" => processed[s] = appended[s]

\* C16: when processing an event throws, the consumer loop goes on: the
\* failed event leaves its processing buffer and is never processed again,
\* and the later events are still processed.
FailureDoesNotStopConsumer == []HandedOnceAndAll /\ [][ThrowKeepsLoopGoing]_vars

\* the first of two accepted blocks failed, the second one was indexed
FailedThenIndexed ==
  /\ Len(processed["block_state"]) = 2
  /\ consumer_pc \notin BlockCallPcs
  /\ start_block_num = 0
  /\ \A i \in 1..Len(store) :
       store[i].kind = "blocks" => store[i].id # processed["block_state"][1].id
  /\ \E i \in 1..Len(store) :
       store[i].kind = "blocks" /\ store[i].id = processed["block_state"][2].id

(***************************************************************************)
(* The document-store client.                                              *)
(***************************************************************************)
\* C17: delete_index on an index that does not exist (the store answers
\* 404) returns without raising an error.
DeleteAbsentIndexReturns ==
  (call.op = "delete_index" /\ call.status = 404) => call.result = "returned"

\* C18: index, init_index, count_doc, search and delete_by_query return for
\* every status code in 200..299 and raise the response-code error for every
\* other status code.
EveryTwoHundredSucceeds ==
  (call.op \in {"index", "init_index", "count_doc", "search", "delete_by_query"}
     /\ call.status # 0)
    => (IF call.status > 199 /\ call.status < 300
          THEN call.result = "returned"
          ELSE call.result = "response_code_exception")

(***************************************************************************)
(* Shutdown.                                                               *)
(***************************************************************************)
\* startup is still true exactly as long as the consumer thread has not been
\* launched; the destructor is past `if (!startup)` only with the thread
\* launched and done set; it has ended either without touching done (thread
\* never launched) or after the join of the thread that has left its loop
JoinOnlyLaunched ==
  /\ startup <=> consumer_pc = "not_started"
  /\ main_pc \in {"destructor_notify", "join"} => ~startup /\ done
  /\ (main_pc = "stopped" /\ startup) => ~done
  /\ (main_pc = "stopped" /\ ~startup) => done /\ consumer_pc = "exited"
  /\ done => ~startup

\* the destructor's first step takes the branch that startup selects, and
\* the notify is followed by the join
DestructorBranches ==
  /\ (main_pc = "destructor" /\ main_pc' # main_pc) =>
       IF startup THEN main_pc' = "stopped" /\ done' = done /\ cv_waiting' = cv_waiting
       ELSE main_pc' = "destructor_notify" /\ done'
  /\ (main_pc = "destructor_notify" /\ main_pc' # main_pc) => main_pc' = "join"
  /\ (main_pc = "join" /\ main_pc' # main_pc) => consumer_pc = "exited"

\* C19: shutdown joins the consumer thread if and only if it was launched:
\* destroyed with startup still true, the impl sets no done and joins
\* nothing; with startup false it sets done, notifies and joins.
JoinIffLaunched == []JoinOnlyLaunched /\ [][DestructorBranches]_vars

\* destroyed after a failed initialisation: no thread, no done, no join
StoppedWithoutLaunch ==
  /\ main_pc = "stopped"
  /\ startup
  /\ ~done
  /\ consumer_pc = "not_started"

(***************************************************************************)
(* The producer's backpressure.                                            *)
(***************************************************************************)
\* the step of queue() that takes the lock and tests the size
LockStep == main_pc = "queue_lock" /\ main_pc' # main_pc

\* C21 as stated: an enqueue takes the backpressure branch whenever any of
\* the four shared queues holds more than max_queue_size entries when the
\* lock is acquired.
BackpressureOnAnyQueueStep ==
  (LockStep /\ \E s \in Streams : Len(queues[s]) > max_queue_size)
    => main_pc' = "queue_over_unlock"

BackpressureOnAnyQueue == [][BackpressureOnAnyQueueStep]_vars

\* C21 as amended: an enqueue takes the backpressure branch exactly when
\* the queue it appends to holds more than max_queue_size entries when the
\* lock is acquired, whatever the other three queues hold; the branch
\* releases the lock, notifies, raises the sleep by 10 ms and sleeps.
BackpressureOnOwnQueueStep ==
  /\ LockStep =>
       /\ main_pc' \in {"queue_over_unlock", "queue_push"}
       /\ main_pc' = "queue_over_unlock" <=> Len(queues[cur.stream]) > max_queue_size
  /\ (main_pc = "queue_over_unlock" /\ main_pc' # main_pc) =>
       /\ mtx = "main" /\ mtx' = "free"
       /\ main_pc' = "queue_over_notify"
  /\ (main_pc = "queue_over_notify" /\ main_pc' # main_pc) =>
       /\ ~cv_waiting'
       /\ queue_sleep_time' = queue_sleep_time + 10
       /\ main_pc' = "queue_sleep"

BackpressureOnOwnQueue == [][BackpressureOnOwnQueueStep]_vars

\* C21 witness: a callback found its own queue empty while another queue was
\* over capacity, and went on to emplace_back without sleeping.
OtherQueueOverCapacity ==
  /\ main_pc = "queue_push"
  /\ queue_sleep_time = 0
  /\ queues[cur.stream] = <<>>
  /\ \E s \in Streams : Len(queues[s]) > max_queue_size

\* C23: the producer never holds the queue mutex while it sleeps, and no
\* step of a callback writes to the document store.
CallbackPcs ==
  {"queue_lock", "queue_over_unlock", "queue_over_notify", "queue_sleep", "queue_push",
   "queue_unlock", "queue_notify"}

SleepsUnlocked == main_pc = "queue_sleep" => mtx # "main"

CallbackStepWritesNothing ==
  (main_pc \in CallbackPcs /\ main_pc' # main_pc) => store' = store

ProducerSleepsUnlocked == []SleepsUnlocked /\ [][CallbackStepWritesNothing]_vars

\* C23 witness: while the producer is asleep the consumer has taken the
\* mutex and drained the shared queues.
DrainedDuringSleep ==
  /\ main_pc = "queue_sleep"
  /\ mtx = "consumer"
  /\ consumer_pc = "unlock"
  /\ queues = Empty
  /\ \E s \in Streams : process_queues[s] # <<>>

(***************************************************************************)
(* The start-block gate.                                                   *)
(***************************************************************************)
\* the consumer hands an accepted block to process_accepted_block
BlockHanded == processed'["block_state"] # processed["block_state"]

\* C24: while start_block_reached is false no document of a stream event is
\* in the store and no step of the consumer writes one; the accepted block
\* that sets the flag is one at or above start_block_num and the same call
\* goes on to index it.
GateClosedNothingWritten == ~start_block_reached => BlockDocs = {}

ClosedGateStep ==
  /\ (~start_block_reached /\ consumer_pc' # consumer_pc) => store' = store
  /\ (BlockHanded /\ ~start_block_reached) =>
       LET bs == Front(process_queues["block_state"])
       IN IF bs.block_num >= start_block_num
            THEN /\ start_block_reached'
                 /\ consumer_pc' = "index_block_states"
                 /\ Front(process_queues'["block_state"]) = bs
            ELSE /\ ~start_block_reached'
                 /\ consumer_pc' # "index_block_states"
  /\ (~start_block_reached /\ start_block_reached') =>
       (BlockHanded \/ main_pc = "constructed")

ClosedGateWritesNothing == []GateClosedNothingWritten /\ [][ClosedGateStep]_vars

\* C24 witness: a block below the threshold wrote nothing, and the first
\* block at the threshold set the flag and is in the store.
TrippingBlockIndexed ==
  /\ start_block_num > 0
  /\ Len(processed["block_state"]) = 2
  /\ processed["block_state"][1].block_num < start_block_num
  /\ processed["block_state"][2].block_num >= start_block_num
  /\ KindIds("block_states") = <<2>>
  /\ KindIds("blocks") = <<2>>

(***************************************************************************)
(* Shutdown.                                                               *)
(***************************************************************************)
\* the destructor has returned from consume_thread.join()
Joined == main_pc = "stopped" /\ done /\ consumer_pc = "exited"

\* C29 as stated: when a plugin whose consumer thread runs is shut down, the
\* subscriptions are released only after done is set, the condition
\* notified and the consumer joined.
ReleaseAfterJoinStep == (~startup /\ connected /\ ~connected') => Joined'

ReleaseAfterJoin == [][ReleaseAfterJoinStep]_vars

\* C29 as amended: plugin_shutdown releases the four subscriptions first;
\* only then does the destructor set done, notify the condition and join
\* the consumer, in this order.
ShutdownOrderInv ==
  /\ done => ~connected
  /\ main_pc \in {"destructor", "destructor_notify", "join", "stopped"} => ~connected
  /\ main_pc \in {"destructor_notify", "join"} => done
  /\ (main_pc = "stopped" /\ done) => consumer_pc = "exited"

ShutdownOrderStep ==
  /\ (connected /\ ~connected') => (~done' /\ main_pc' = "destructor")
  /\ (~done /\ done') => (main_pc = "destructor" /\ main_pc' = "destructor_notify")
  /\ (main_pc = "destructor_notify" /\ main_pc' # main_pc) =>
       (~cv_waiting' /\ main_pc' = "join")
  /\ (main_pc = "join" /\ main_pc' # main_pc) =>
       (consumer_pc = "exited" /\ main_pc' = "stopped")

ReleaseThenDoneNotifyJoin == []ShutdownOrderInv /\ [][ShutdownOrderStep]_vars

\* C29 witness: a running plugin has been shut down and the join has
\* returned.
ShutDownAfterWork ==
  /\ Joined
  /\ ~connected
  /\ Total(processed) > 0

(***************************************************************************)
(* The on-chain tables read by check_hash.                                 *)
(***************************************************************************)
\* check_hash has run
Checked == stats.msg # ""

\* the rows of producerhash submitted by the configured producer
OwnRows ==
  {i \in 1..Len(chain.producerhash) :
     chain.producerhash[i].producer = producer_name["blacklist_plugin"]}

ActorRows ==
  {i \in 1..Len(chain.theblacklist) : chain.theblacklist[i].type = "actor-blacklist"}

\* the number of accounts in the actor-blacklist rows before row i
Offset(i) ==
  LET F[k \in 0..Len(chain.theblacklist)] ==
        IF k = 0 THEN 0
        ELSE F[k - 1] + (IF k \in ActorRows THEN Len(chain.theblacklist[k].accounts) ELSE 0)
  IN F[i - 1]

\* the account at each position of the concatenation
Concatenation ==
  [k \in 1..Offset(Len(chain.theblacklist) + 1) |->
     LET i == CHOOSE r \in ActorRows :
                Offset(r) < k /\ k <= Offset(r) + Len(chain.theblacklist[r].accounts)
     IN chain.theblacklist[i].accounts[k - Offset(i)]]

EmptySubmittedIsMismatch ==
  Checked =>
    /\ OwnRows = {} => stats.submitted_hash = EmptyString
    /\ (stats.submitted_hash = EmptyString /\ stats.local_hash = stats.ecaf_hash)
         => stats.msg = "local and submitted hash MISMATCH!"
    /\ stats.msg = "OK" => stats.submitted_hash # EmptyString

\* C28 witness: the local and the on-chain list are both empty, no row was
\* submitted, and check_hash has reported the mismatch.
EmptyListsNoSubmission ==
  /\ Checked
  /\ chain.actor_blacklist = {}
  /\ get_onchain_actor_blacklist(chain.theblacklist) = <<>>
  /\ OwnRows = {}
  /\ stats.local_hash = stats.ecaf_hash
  /\ stats.msg = "local and submitted hash MISMATCH!"

(***************************************************************************)
(* Misses of the ABI cache that fail.                                      *)
(***************************************************************************)
\* C25: a miss whose search does not return exactly one hit, whose hit has
\* no abi field, or whose abi does not convert to abi_def returns absent and
\* leaves the cache as it was: the same entries with the same last_accessed
\* values.
FailedMissLeavesCache ==
  \A n \in Accounts \ CachedAccounts(abi_cache_index) :
    \A outcome \in {"not_one_hit", "no_abi", "not_abi_def"} :
      /\ Returned(abi_cache_index, n, outcome) = "absent"
      /\ CacheAfter(abi_cache_index, n, outcome, now + 1) = abi_cache_index
      /\ ~ReadsClock(abi_cache_index, n, outcome)

\* C25 witness: a miss has returned absent without reaching the purge, on a
\* full cache whose latest change was an insertion.
MissFailedOnFullCache ==
  /\ returned = "absent"
  /\ lookups # <<>>
  /\ Last(lookups).result = "inserted"
  /\ Cardinality(abi_cache_index) = abi_cache_size

(***************************************************************************)
(* The adaptive sleep of the producer.                                     *)
(***************************************************************************)
\* the value of the sleep after the adjustments h, starting from 0
Replay(h) ==
  LET F[i \in 0..Len(h)] ==
        IF i = 0 THEN 0
        ELSE IF h[i] = "over" THEN F[i - 1] + 10
        ELSE IF F[i - 1] >= 10 THEN F[i - 1] - 10
        ELSE 0
  IN F[Len(h)]

Leading(h, i) == [j \in 1..i |-> h[j]]

\* the call in progress has not adjusted the sleep yet
BeforeAdjustment == main_pc \in {"queue_lock", "queue_over_unlock", "queue_over_notify"}

\* every call adjusts the sleep once, and the value is the one the
\* adjustments so far give
SleepFollowsEnqueues ==
  /\ Len(enqueues) = Total(emitted) - (IF BeforeAdjustment THEN 1 ELSE 0)
  /\ queue_sleep_time = Replay(enqueues)

\* after k over-capacity enqueues that started from 0, followed by k or more
\* in-capacity enqueues, the value is 0
BackToZero ==
  \A i \in 0..Len(enqueues), k \in 1..Len(enqueues) :
    (/\ i + 2 * k <= Len(enqueues)
     /\ Replay(Leading(enqueues, i)) = 0
     /\ \A j \in (i + 1)..(i + k) : enqueues[j] = "over"
     /\ \A j \in (i + k + 1)..Len(enqueues) : enqueues[j] = "in")
      => queue_sleep_time = 0

\* an enqueue that finds its queue within capacity lowers the sleep by 10,
\* not below 0, in the step that takes the lock; one that finds it over
\* capacity raises it by 10 in the step that notifies; no other step changes it
AdjustmentStep ==
  /\ (LockStep /\ Len(queues[cur.stream]) <= max_queue_size) =>
       /\ queue_sleep_time' = (IF queue_sleep_time >= 10 THEN queue_sleep_time - 10 ELSE 0)
       /\ enqueues' = Append(enqueues, "in")
  /\ (LockStep /\ Len(queues[cur.stream]) > max_queue_size) =>
       /\ queue_sleep_time' = queue_sleep_time
       /\ enqueues' = enqueues
       /\ main_pc' = "queue_over_unlock"
  /\ (main_pc = "queue_over_notify" /\ main_pc' # main_pc) =>
       /\ queue_sleep_time' = queue_sleep_time + 10
       /\ enqueues' = Append(enqueues, "over")
  /\ queue_sleep_time' # queue_sleep_time =>
       (LockStep \/ (main_pc = "queue_over_notify" /\ main_pc' # main_pc))

\* C22: each over-capacity enqueue raises queue_sleep_time by exactly 10 and
\* each in-capacity enqueue lowers it by exactly 10, not below 0; from 0, k
\* over-capacity enqueues followed by at least k in-capacity ones bring the
\* value back to 0.
SleepRisesAndDecaysByTen ==
  /\ [](SleepFollowsEnqueues /\ BackToZero)
  /\ [][AdjustmentStep]_vars

\* C22 witness: two over-capacity enqueues took the sleep from 0 to 20 and
\* two in-capacity ones brought it back to 0.
TwoUpTwoDown ==
  /\ Len(enqueues) >= 4
  /\ LET n == Len(enqueues)
     IN /\ Replay(Leading(enqueues, n - 4)) = 0
        /\ enqueues[n - 3] = "over" /\ enqueues[n - 2] = "over"
        /\ enqueues[n - 1] = "in" /\ enqueues[n] = "in"
  /\ queue_sleep_time = 0
  /\ main_pc = "idle"

(***************************************************************************)
(* The documents of an accepted block.                                     *)
(***************************************************************************)
\* the k-th accepted block handed to process_accepted_block found the gate
\* open or opened it
GatePassed(k) ==
  \/ start_block_num = 0
  \/ \E j \in 1..k : processed["block_state"][j].block_num >= start_block_num

\* the call of process_accepted_block for the k-th block has returned
CallReturned(k) == ~(k = Len(processed["block_state"]) /\ consumer_pc \in BlockCallPcs)

\* the positions in the store of the documents of block bs
DocsOf(bs) == {p \in BlockDocs : store[p].id = bs.id}

\* the block has exactly two documents: block_states first, then blocks with
\* irreversible = false, with the block's number and id and one createAt
TwoDocuments(bs) ==
  \E p, q \in DocsOf(bs) :
    /\ DocsOf(bs) = {p, q}
    /\ p < q
    /\ store[p].kind = "block_states"
    /\ store[q].kind = "blocks"
    /\ store[q].irreversible = FALSE
    /\ store[p].block_num = bs.block_num /\ store[q].block_num = bs.block_num
    /\ store[p].createAt = store[q].createAt

StubStreams == {"transaction_metadata", "transaction_trace", "irreversible_block_state"}

StubStepFrame ==
  \A s \in StubStreams :
    Handed(s) =>
      /\ store' = store
      /\ process_queues' = [process_queues EXCEPT ![s] = Tail(@)]
      /\ processed'[s] = Append(processed[s], Head(process_queues[s]))
      /\ UNCHANGED <<start_block_reached, start_block_num, queues, queue_sleep_time,
                     sizes, mtx, cv_waiting, done, connected, startup, cache_vars>>

\* C31: handing an accepted transaction, an applied transaction trace or an
\* irreversible block to its process function writes no document and changes
\* nothing of the plugin but the processing buffer the entry is removed from:
\* the shared queues, start_block_reached and the ABI cache stay as they were
StubsWriteNothing == [][StubStepFrame]_vars

\* a transaction and a trace have both been handed to their stubs
BothStubsHanded ==
  /\ processed["transaction_metadata"] # <<>>
  /\ processed["transaction_trace"] # <<>>
  /\ store # <<>>

\* the entries of stream s that were appended and not yet handed over
Unprocessed(s) == SubSeq(appended[s], Len(processed[s]) + 1, Len(appended[s]))

CaptureStep == consumer_pc = "capture" /\ consumer_pc' = "unlock"

Drained ==
  consumer_pc = "unlock" =>
    /\ mtx = "consumer"
    /\ queues = Empty
    /\ \A s \in Streams : process_queues[s] = Unprocessed(s)

\* C32: the drain happens inside one critical section: the capture step moves
\* every shared queue into its processing buffer with the mutex held, and when
\* the consumer is about to release the mutex the four shared queues are empty
\* and each buffer holds, in order, the entries its queue held
DrainIsAtomic ==
  /\ []Drained
  /\ [][CaptureStep => mtx = "consumer" /\ mtx' = "consumer" /\ process_queues' = queues]_vars

\* a drain that moved two queues at once
TwoQueuesDrained ==
  /\ consumer_pc = "unlock"
  /\ process_queues["transaction_trace"] # <<>>
  /\ process_queues["block_state"] # <<>>

ExitStep == consumer_pc = "exit_check" /\ consumer_pc' = "exited"

ExitedClean ==
  consumer_pc = "exited" =>
    /\ done
    /\ queues = Empty
    /\ process_queues = Empty
    /\ processed = appended

\* C33: the consumer leaves its loop only with done set and after a drain that
\* found the four shared queues empty; once it has exited the shared queues and
\* the processing buffers are empty and every appended entry has been handed to
\* its process function
ExitsOnlyWhenDrained ==
  /\ []ExitedClean
  /\ [][ExitStep => done /\ \A s \in Streams : sizes[s] = 0]_vars

\* the consumer has exited after handing over two entries
ExitedAfterWork == consumer_pc = "exited" /\ Total(processed) >= 2

SleepStepOfCall ==
  /\ (LockStep =>
        (main_pc' = "queue_over_unlock") = (Len(queues[cur.stream]) > max_queue_size))
  /\ (main_pc = "queue_sleep" /\ main_pc' # main_pc =>
        main_pc' = "queue_push" /\ queues' = queues)
  /\ (main_pc = "queue_push" /\ main_pc' # main_pc =>
        /\ queues' = [queues EXCEPT ![cur.stream] = Append(@, cur.entry)]
        /\ main_pc' = "queue_unlock")

\* C36: the size of the queue is tested once, on the value read when the lock
\* was first taken; a call that slept takes the lock again and appends its
\* entry, whatever the size of the queue is by then, and never sleeps twice
SleepsOnceThenAppends == [][SleepStepOfCall]_vars

\* an entry was appended after the sleep to a queue that was still over capacity
AppendedOverCapacity ==
  /\ main_pc = "queue_unlock"
  /\ enqueues # <<>>
  /\ Last(enqueues) = "over"
  /\ Len(queues[cur.stream]) > max_queue_size + 1

ShutDownClean ==
  /\ (done => ~connected /\ main_pc \notin CallbackPcs)
  /\ (main_pc = "stopped" => queues = Empty /\ processed = appended)

\* C37: the subscriptions are released before done is set, no entry is appended
\* to a shared queue once the consumer has exited, and at the end of shutdown no
\* entry is left in a queue: every appended entry has been handed over
NoAppendAfterExit ==
  /\ []ShutDownClean
  /\ [][consumer_pc = "exited" => appended' = appended /\ queues' = queues]_vars

\* shutdown has ended after the consumer handed over everything emitted
StoppedAfterWork ==
  /\ main_pc = "stopped"
  /\ consumer_pc = "exited"
  /\ Total(appended) = emit_limit
  /\ emit_limit >= 2

FirstWriteFails ==
  /\ consumer_pc = "index_block_states"
  /\ consumer_pc' \notin {"index_block_states", "to_variant_with_abi"}

FirstWriteFailsStep ==
  FirstWriteFails =>
    /\ store' = store
    /\ process_queues' = [process_queues EXCEPT !["block_state"] = Tail(@)]
    /\ (Tail(process_queues["block_state"]) # <<>> =>
          consumer_pc' = "process" /\ ProcessOrder[stage'] = "block_state")

NextBlockStep ==
  Handed("block_state") /\ start_block_reached' => consumer_pc' = "index_block_states"

BlocksAfterBlockStates ==
  \A p \in 1..Len(store) :
    store[p].kind = "blocks" =>
      p > 1 /\ store[p - 1].kind = "block_states" /\ store[p - 1].id = store[p].id

\* C38: when the write of the block_states document of an accepted block fails,
\* nothing is written for that block, its blocks document included, the block
\* is popped, and the next block of the buffer goes through the same two writes
FailedBlockStatesSkipsBlock ==
  /\ []BlocksAfterBlockStates
  /\ [][FirstWriteFailsStep /\ NextBlockStep]_vars

\* two blocks drained together: the first lost its block_states write, the
\* second has both documents
SecondBlockWrittenAfterFailure ==
  /\ consumer_pc = "exit_check"
  /\ sizes["block_state"] = 2
  /\ start_block_num = 0
  /\ KindIds("block_states") = <<2>>
  /\ KindIds("blocks") = <<2>>

TopOfCyclePcs == {"lock", "check", "wait", "waiting", "capture"}

\* C40: from the moment the consumer takes the queue mutex at the top of a
\* drain cycle until the capture, the four processing buffers are empty, so
\* the move-assignment of the capture replaces no entry that was not handed over
BuffersEmptyAtLock == [](consumer_pc \in TopOfCyclePcs => process_queues = Empty)

\* a later cycle is about to move a queue into a buffer that held entries before
SecondCapture ==
  /\ consumer_pc = "capture"
  /\ Total(processed) >= 1
  /\ queues # Empty

NotifyStep == main_pc = "queue_over_notify" /\ main_pc' # main_pc

SharedSleepStep ==
  \A s \in Streams :
    /\ (LockStep /\ cur.stream = s /\ Len(queues[s]) <= max_queue_size) =>
         queue_sleep_time' =
           (IF Replay(enqueues) >= SleepStep THEN Replay(enqueues) - SleepStep ELSE 0)
    /\ (NotifyStep /\ cur.stream = s) =>
         queue_sleep_time' = Replay(enqueues) + SleepStep

\* the enqueues of every stream are in the one history the value follows
AllStreamsCounted ==
  /\ Len(enqueues) = Total(emitted) - (IF BeforeAdjustment THEN 1 ELSE 0)
  /\ (main_pc = "queue_sleep" => queue_sleep_time = Replay(enqueues))

\* C39: there is one sleep counter for all the streams: an enqueue of any
\* stream that finds its queue within capacity lowers the value the enqueues
\* of all streams have accumulated, and the sleep of an over-capacity enqueue
\* is that accumulated value plus 10
SleepSharedByStreams == []AllStreamsCounted /\ [][SharedSleepStep]_vars

\* the first transaction_metadata enqueue, within capacity, has just lowered
\* the sleep that an over-capacity trace enqueue had raised
RaisedByOneLoweredByOther ==
  /\ main_pc = "queue_push"
  /\ cur.stream = "transaction_metadata"
  /\ Len(emitted["transaction_metadata"]) = 1
  /\ Len(enqueues) >= 3
  /\ LET n == Len(enqueues)
     IN /\ enqueues[n - 1] = "over"
        /\ enqueues[n] = "in"
        /\ queue_sleep_time = Replay(Leading(enqueues, n - 1)) - SleepStep

\* C34: with the consumer running, both threads scheduled fairly and store
\* calls that return, every entry appended to a shared queue is eventually
\* handed to its process function (the histories only grow, so a state with
\* processed = appended that follows the append has the entry handed over):
\* the notification that follows the push is not lost against the consumer's
\* predicate check and wait
AppendedEventuallyProcessed == (processed # appended) ~> (processed = appended)

\* the consumer was blocked in the wait when an entry was appended, and the
\* entry has been handed over
WokenAndProcessed ==
  /\ Total(processed) >= 1
  /\ consumer_pc = "waiting"
  /\ cv_waiting
  /\ processed = appended

\* the positions of the main thread inside a call of the document-store client
InitStorePcs == {"delete_index", "init_index", "count_doc", "seed_account"}

Launched == consumer_pc # "not_started"

MainStep == main_pc' # main_pc

StoreCallsBeforeLaunch == main_pc \in InitStorePcs \cup {"launch"} => ~Launched /\ startup

LaunchedFrame ==
  /\ (Launched /\ MainStep => UNCHANGED <<store, process_queues, cache_vars>>)
  /\ (store' # store \/ process_queues' # process_queues \/ cache_vars' # cache_vars =>
        \/ ~Launched /\ main_pc \in InitStorePcs
        \/ Launched /\ main_pc' = main_pc /\ consumer_pc \notin {"not_started", "exited"})

\* C35: the store calls of the initializing thread (delete index, create
\* index, count, seed) all come before the consumer thread is launched; after
\* the launch no step of the main thread touches the store, the processing
\* buffers or the ABI cache: they change in steps of the consumer only
ConsumerOwnsItsState == []StoreCallsBeforeLaunch /\ [][LaunchedFrame]_vars

\* the consumer has resolved an ABI and written both documents of a block
\* after the main thread seeded the store
ConsumerResolvedAndWrote ==
  /\ lookups # <<>>
  /\ Len(store) >= 3
  /\ store[1].kind = "accounts"
  /\ processed["block_state"] # <<>>
====
